---- MODULE Spec2Model ----
(***************************************************************************)
(* x402chatly: the x402 payment gate (src/lib/supabase.ts, the x402        *)
(* section) in front of the chat orchestrator                              *)
(* (src/src/app/api/chat/route.ts).                                        *)
(*                                                                         *)
(* One behaviour is the life of one inbound HTTP request on POST /api/chat *)
(* in a process whose environment was fixed at start-up.                   *)
(*                                                                         *)
(* JavaScript strings that carry data (prices, environment values,         *)
(* signatures, transaction ids, amounts, error texts) are sequences of     *)
(* pieces: a piece is one character, or a whole literal of the code whose  *)
(* characters are all Latin-1 letters and play no further role.  The       *)
(* regular expression of getPrice and the Latin-1 restriction of btoa are  *)
(* therefore computed and not assumed.  Header names, model ids and record *)
(* tags are TLA+ strings.                                                  *)
(***************************************************************************)
EXTENDS Integers, Sequences, FiniteSets, TLC

\* At most this many variables of process.env are set.
MaxEnvSet == 1
\* At most this many parts in the array content of a message.
MaxParts == 3
\* At most this many lines in the body of a streamed response.
MaxLines == 3
\* This many requests are served concurrently.
MaxTasks == 3
\* At most this many characters in a string of a payment payload.
MaxChars == 2
MaxHistory == 13
MaxCallers == 3

----------------------------------------------------------------------------
(* JavaScript values *)

\* The value undefined where a string is expected.
Undefined == <<"undefined">>
\* The value null where a string is expected.
Null == <<"null">>

\* ToBoolean of a string-or-undefined value.
Truthy(s) == s # Undefined /\ s # Null /\ s # <<>>

Digit == {"0", "1", "2", "3", "4", "5", "6", "7", "8", "9"}

\* A character outside the Latin-1 range (code point above 0xFF).
WideChar == "U+03A9"

\* /^\d+$/.test(s)
IsDigitString(s) == Len(s) > 0 /\ \A i \in 1..Len(s) : s[i] \in Digit

DigitVal(c) ==
  CASE c = "0" -> 0 [] c = "1" -> 1 [] c = "2" -> 2 [] c = "3" -> 3
    [] c = "4" -> 4 [] c = "5" -> 5 [] c = "6" -> 6 [] c = "7" -> 7
    [] c = "8" -> 8 [] c = "9" -> 9

RECURSIVE StrToNat(_)
\* Number(s) of a digit string.
StrToNat(s) ==
  IF Len(s) = 0 THEN 0
  ELSE 10 * StrToNat(SubSeq(s, 1, Len(s) - 1)) + DigitVal(s[Len(s)])

\* btoa accepts only characters of the Latin-1 range.
IsLatin1(s) == \A i \in 1..Len(s) : s[i] # WideChar

----------------------------------------------------------------------------
(* Environment *)

PriceKeys == {"PRICE_GPT", "PRICE_CLAUDE", "PRICE_DEEPSEEK",
              "PRICE_VISION_ADDON", "PRICE_DEEPSEEK_VISION"}
EnvKeys == PriceKeys \cup {"TREASURY_WALLET_ADDRESS", "NODE_ENV"}

Production == <<"production">>
TreasuryAddress == <<"TreasuryWallet">>
PlaceholderAddress == <<"11111111111111111111111111111111">>

\* The values a set environment variable is drawn from.
EnvCandidates(k) ==
  IF k \in PriceKeys THEN {<<"5", "0", "0", "0", "0">>, <<"5", "e", "4">>}
  ELSE IF k = "NODE_ENV" THEN {Production}
  ELSE {TreasuryAddress}

EnvsOver(S) ==
  { [k \in EnvKeys |-> IF k \in S THEN f[k] ELSE Undefined] :
      f \in { g \in [S -> UNION {EnvCandidates(k) : k \in EnvKeys}] :
                \A k \in S : g[k] \in EnvCandidates(k) } }

Envs ==
  UNION { EnvsOver(S) : S \in {T \in SUBSET EnvKeys : Cardinality(T) <= MaxEnvSet} }

----------------------------------------------------------------------------
(* Pricing *)

FALLBACK_PRICING ==
  [gpt5     |-> [base   |-> <<"1", "0", "0", "0", "0", "0">>,
                 vision |-> <<"1", "5", "0", "0", "0", "0">>],
   claude   |-> [base   |-> <<"2", "0", "0", "0", "0", "0">>,
                 vision |-> <<"2", "5", "0", "0", "0", "0">>],
   deepseek |-> [base   |-> <<"3", "0", "0", "0", "0">>,
                 vision |-> <<"3", "0", "0", "0", "0">>]]

getPrice(e, envKey, fallback) ==
  LET value == e[envKey]
  IN  IF Truthy(value) /\ IsDigitString(value) THEN value ELSE fallback

KnownModels == {"gpt-5", "claude-sonnet-4-5", "deepseek"}

AI_MODEL_PRICING(e) ==
  [m \in KnownModels |->
     CASE m = "gpt-5" ->
            [name |-> "GPT-5",
             pricePerMessage |-> getPrice(e, "PRICE_GPT", FALLBACK_PRICING.gpt5.base),
             visionPrice |-> getPrice(e, "PRICE_VISION_ADDON", FALLBACK_PRICING.gpt5.vision)]
       [] m = "claude-sonnet-4-5" ->
            [name |-> "Claude 4.5 Sonnet",
             pricePerMessage |-> getPrice(e, "PRICE_CLAUDE", FALLBACK_PRICING.claude.base),
             visionPrice |-> getPrice(e, "PRICE_VISION_ADDON", FALLBACK_PRICING.claude.vision)]
       [] m = "deepseek" ->
            [name |-> "Deepseek Chat",
             pricePerMessage |-> getPrice(e, "PRICE_DEEPSEEK", FALLBACK_PRICING.deepseek.base),
             visionPrice |-> getPrice(e, "PRICE_DEEPSEEK_VISION", FALLBACK_PRICING.deepseek.vision)]]

\* A call either returns a value or throws.
Ok(v) == [ok |-> TRUE, v |-> v]
Throw == [ok |-> FALSE, v |-> Undefined]

getModelPrice(e, model, hasVision) ==
  IF model \notin KnownModels THEN Throw
  ELSE Ok(IF hasVision THEN AI_MODEL_PRICING(e)[model].visionPrice
                       ELSE AI_MODEL_PRICING(e)[model].pricePerMessage)

getX402Config(e) ==
  LET treasuryWallet == e["TREASURY_WALLET_ADDRESS"]
      isProduction == e["NODE_ENV"] = Production
  IN  IF ~Truthy(treasuryWallet) /\ isProduction THEN Throw
      ELSE Ok([network |-> "solana-devnet",
               treasuryWallet |-> IF Truthy(treasuryWallet) THEN treasuryWallet
                                  ELSE PlaceholderAddress])

createChatPaymentRequirements(e, model, hasVision, endpoint) ==
  LET config == getX402Config(e)
      price == getModelPrice(e, model, hasVision)
  IN  IF ~config.ok \/ ~price.ok THEN Throw
      ELSE Ok([scheme |-> "exact",
               network |-> config.v.network,
               maxAmountRequired |-> price.v,
               resource |-> endpoint,
               description |-> <<AI_MODEL_PRICING(e)[model].name,
                                 IF hasVision THEN "(Vision)" ELSE "">>,
               payTo |-> config.v.treasuryWallet,
               maxTimeoutSeconds |-> 300])

----------------------------------------------------------------------------
(* Requests *)

DefaultModel == "deepseek"
RouteHasVision == FALSE
RouteEndpoint == "/api/chat"

\* Model ids a body may name: the three known ones and one unknown.
BodyModels == KnownModels \cup {"gpt-4"}

\* The decoded JSON of a well-formed X-PAYMENT header.  A wallet built on
\* the PaymentPayload type fills payload.signature and
\* payload.authorization.value; other clients leave them out.
Payloads ==
  { [x402Version |-> 1, scheme |-> "exact",
     payload |-> [signature |-> <<"s", "i", "g", "A">>,
                  authorization |-> [value |-> <<"3", "0", "0", "0", "0">>]]],
    [x402Version |-> 1, scheme |-> "exact",
     payload |-> [signature |-> Undefined,
                  authorization |-> [value |-> Undefined]]] }

NoPayload == [x402Version |-> 0, scheme |-> "none",
              payload |-> [signature |-> Undefined,
                           authorization |-> [value |-> Undefined]]]

\* The X-PAYMENT header of a request: not sent, sent empty, not base64,
\* base64 of text that is not JSON, base64 of JSON.
Headers ==
  { [kind |-> k, payload |-> NoPayload] :
      k \in {"absent", "empty", "notBase64", "notJson"} }
  \cup { [kind |-> "json", payload |-> p] : p \in Payloads }

\* The body of a request: not JSON, or JSON with an optional model and
\* optional image attachments.
Bodies ==
  { [json |-> FALSE, model |-> "", hasImages |-> FALSE] }
  \cup { [json |-> TRUE, model |-> m, hasImages |-> b] :
           m \in BodyModels \cup {""}, b \in BOOLEAN }

Requests ==
  { [method |-> me, header |-> h, body |-> b] :
      me \in {"POST", "OPTIONS"}, h \in Headers, b \in Bodies }

----------------------------------------------------------------------------
(* Facilitator *)

JsBoolean_NotFalse(v) == v # "false"

\* Boolean(v) of a JSON field that is true, false or absent.
JsBoolean(v) == v = "true"

NoVerifyBody == [isValid |-> "undefined", error |-> Undefined,
                 invalidReason |-> Undefined, payer |-> Undefined]

VerifyBodies ==
  { [isValid |-> "true", error |-> Undefined, invalidReason |-> Undefined,
     payer |-> <<"payer">>],
    [isValid |-> "false", error |-> <<"b", "a", "d">>, invalidReason |-> Undefined,
     payer |-> Undefined],
    [isValid |-> "false", error |-> Undefined, invalidReason |-> <<"expired">>,
     payer |-> Undefined],
    NoVerifyBody }

\* What the facilitator may do on POST /verify: no connection, a non-2xx
\* status, a body that is not JSON, a JSON body.
VerifyOutcomes ==
  { [kind |-> k, body |-> NoVerifyBody] : k \in {"transport", "status", "badJson"} }
  \cup { [kind |-> "json", body |-> b] : b \in VerifyBodies }

NoSettleBody == [success |-> "undefined", transaction |-> Undefined,
                 amount |-> Undefined, error |-> Undefined, networkId |-> Undefined]

SettleBodies ==
  { [success |-> "true", transaction |-> <<"a", "b", "c", "1", "2", "3">>,
     amount |-> <<"1", "0", "0", "0", "0", "0">>, error |-> Undefined,
     networkId |-> Undefined],
    [success |-> "true", transaction |-> <<"a", "b", "c", "1", "2", "3">>,
     amount |-> Undefined, error |-> Undefined, networkId |-> Undefined],
    [success |-> "true", transaction |-> Undefined,
     amount |-> <<"1", "0", "0", "0", "0", "0">>, error |-> Undefined,
     networkId |-> Undefined],
    [success |-> "true", transaction |-> <<"t", "x", WideChar>>,
     amount |-> Undefined, error |-> Undefined, networkId |-> Undefined],
    [success |-> "false", transaction |-> Undefined, amount |-> Undefined,
     error |-> <<"n", "o", "f", "u", "n", "d", "s">>, networkId |-> Undefined],
    NoSettleBody }

SettleOutcomes ==
  { [kind |-> k, body |-> NoSettleBody] : k \in {"transport", "status", "badJson"} }
  \cup { [kind |-> "json", body |-> b] : b \in SettleBodies }

\* fetch, the response.ok test and response.json() of one facilitator call.
callFacilitator(outcome) ==
  IF outcome.kind = "json" THEN Ok(outcome.body) ELSE Throw

----------------------------------------------------------------------------
(* The payment gate: X402PaymentHandler and withX402Payment *)

VARIABLES
  env,               \* process.env, fixed at start-up
  pc,                \* where the request is
  req,               \* the inbound request
  model,             \* the model id withX402Payment resolved
  handlerSingleton,  \* the lazily constructed X402PaymentHandler
  calls,             \* outbound facilitator calls and handler invocations, in order
  verification,      \* the VerificationResult of this request
  settlement,        \* the SettlementResult of this request
  paymentResult,     \* what handlePaymentFlow returned on success
  response,          \* the HTTP response returned to the client
  handlerResponse,   \* the response the wrapped handler returned
  messages,          \* rows of table messages written by this request
  transactions,      \* rows of table transactions written by this request
  turn,              \* the chat and the files the request names
  writes,            \* the storage writes of this request, in order
  aiResponse,        \* what the provider layer returned or threw
  chatInput,         \* what the orchestrator builds the provider messages from
  config,            \* the AIProviderConfig handed to the provider layer
  wire,              \* the messages sent to the provider's API
  wireParams,        \* the other fields of the request sent to the provider
  stream,            \* one call of streamChat: its generator and its reader
  instances,         \* the lazily constructed objects of the process
  tasks,             \* the requests served concurrently, each at its step
  codec,             \* one payment payload on its way through the header
  route,             \* one request on its way through a gated route
  db                 \* the rows of the database and the calls working on them

auxVars == <<codec, route, db>>

adapterVars == <<chatInput, config, wire, wireParams, stream, instances, tasks,
                 auxVars>>

gateVars == <<env, req, model, handlerSingleton, calls, verification, settlement,
              paymentResult, response, handlerResponse, messages, transactions,
              turn, writes, aiResponse>>

vars == <<env, pc, req, model, handlerSingleton, calls, verification,
          settlement, paymentResult, response, handlerResponse, messages,
          transactions, turn, writes, aiResponse, chatInput, config, wire,
          wireParams, stream, instances, tasks, auxVars>>

NoRequest == [method |-> "none", header |-> [kind |-> "absent", payload |-> NoPayload],
              body |-> [json |-> FALSE, model |-> "", hasImages |-> FALSE]]
NoHandler == [constructed |-> FALSE, config |-> Throw]
NoVerification == [done |-> FALSE, isValid |-> FALSE, error |-> Undefined,
                   invalidReason |-> Undefined, payer |-> Undefined]
NoSettlement == [done |-> FALSE, success |-> FALSE, transaction |-> Undefined,
                 amount |-> Undefined, error |-> Undefined, networkId |-> Undefined]
NoPaymentResult == [success |-> FALSE, settlementResult |-> NoSettlement,
                    paymentAmount |-> Undefined]
NoResponse == [status |-> 0, body |-> [error |-> <<>>], headers |-> <<>>]
NoConfig == [model |-> "", messages |-> <<>>, temperature |-> 0, maxTokens |-> 0,
             systemPrompt |-> Undefined]
NoChatInput == [built |-> FALSE, historyRows |-> <<>>, text |-> <<>>,
                attachments |-> <<>>, temperature |-> 0, maxTokens |-> 0]
NoWireParams == [system |-> Undefined, temperature |-> 0, max_tokens |-> 0]
NoStream == [state |-> "none", provider |-> "", events |-> <<>>,
             terminated |-> FALSE, sdkEvents |-> <<>>, rest |-> <<>>,
             buffer |-> <<>>, lines |-> <<>>, chunks |-> <<>>, reader |-> "none",
             partial |-> FALSE]
NoInstances == [loaded |-> FALSE, treasury |-> FALSE, handler |-> 0, aiProvider |-> 0,
                adapters |-> [m \in {"deepseek", "gpt-5", "claude-sonnet-4-5"} |-> 0],
                constructed |-> [handler |-> 0, aiProvider |-> 0,
                                 adapters |-> [m \in {"deepseek", "gpt-5", "claude-sonnet-4-5"} |-> 0]]]
NoTasks == <<>>
NoCodec == [stage |-> "none", p |-> <<>>, encoder |-> "", header |-> <<>>,
            headers |-> [kind |-> "", entries |-> {}], extracted |-> <<>>,
            runtime |-> "", parsed |-> <<>>]

\* The parts of the state a specification that does not use them leaves at
\* their start values.
NoRoute == [stage |-> "none", endpoint |-> "",
            body |-> [json |-> FALSE, modelKind |-> "absent", model |-> "",
                      hasImage |-> FALSE],
            hasProof |-> FALSE, gateModel |-> "", price |-> <<>>, served |-> ""]
NoOp == [kind |-> "none", walletAddress |-> "", chatId |-> "", title |-> <<>>,
         stage |-> "none", userId |-> "", status |-> 0, accesses |-> <<>>,
         failed |-> FALSE, model |-> "", message |-> <<>>, historyRows |-> <<>>,
         chatMessages |-> <<>>]
NoDb == [users |-> {}, chats |-> {}, messages |-> <<>>, op |-> NoOp,
         callers |-> <<>>]

AuxIdle ==
  /\ route = NoRoute
  /\ db = NoDb
  /\ codec = NoCodec

NoTurn == [chatRef |-> "none", files |-> <<>>]
NoAIResponse == [done |-> FALSE, ok |-> FALSE, model |-> "", totalTokens |-> 0,
                 cost |-> 0, error |-> Undefined]

\* The CORS headers of the 402 and of the preflight response.
CorsHeaders ==
  ("Access-Control-Allow-Origin" :> "*")
  @@ ("Access-Control-Allow-Methods" :> "GET, POST, OPTIONS")
  @@ ("Access-Control-Allow-Headers" :> "Content-Type, X-PAYMENT")
  @@ ("Access-Control-Expose-Headers" :> "X-PAYMENT-RESPONSE")

JsonHeaders == ("Content-Type" :> "application/json")

\* headers.get('X-PAYMENT') of a Headers object.
extractPaymentHeader(r) == r.header

\* !paymentHeader: null and the empty string are falsy.
HeaderMissing(h) == h.kind \in {"absent", "empty"}

\* atob(value): the text a base64 string decodes to.  A text is JSON or
\* not, has the value it parses to, and the characters of its strings.
decodeBase64(h) ==
  IF h.kind = "notBase64" THEN Throw
  ELSE Ok([json |-> h.kind = "json", value |-> h.payload, chars |-> <<>>])

\* JSON.stringify(value) of an object whose strings hold `chars`.
JsonStringify(value, chars) == [json |-> TRUE, value |-> value, chars |-> chars]

\* btoa(text): throws on a character outside Latin-1.
btoa(text) ==
  IF ~IsLatin1(text.chars) THEN Throw
  ELSE Ok([kind |-> IF text.json THEN "json" ELSE "notJson", payload |-> text.value])

JsonParse_Lenient(text) == Ok(text.value)

\* JSON.parse(text)
JsonParse(text) == IF text.json THEN Ok(text.value) ELSE Throw

\* JSON.parse(decodeBase64(paymentHeader))
parsePaymentHeader(h) ==
  LET decoded == decodeBase64(h)
  IN  IF decoded.ok THEN JsonParse(decoded.v) ELSE Throw

\* error || 'Payment required'
ErrorOrDefault(error) == IF Truthy(error) THEN error ELSE <<"Payment required">>

create402Response_NoAccepts(e, m, hasVision, endpoint, error) ==
  LET requirements == createChatPaymentRequirements(e, m, hasVision, endpoint)
  IN  IF ~requirements.ok THEN Throw
      ELSE Ok([status |-> 402,
               body |-> [x402Version |-> 1,
                         error |-> ErrorOrDefault(error),
                         accepts |-> <<>>],
               headers |-> JsonHeaders @@ CorsHeaders])

create402Response(e, m, hasVision, endpoint, error) ==
  LET requirements == createChatPaymentRequirements(e, m, hasVision, endpoint)
  IN  IF ~requirements.ok THEN Throw
      ELSE Ok([status |-> 402,
               body |-> [x402Version |-> 1,
                         error |-> ErrorOrDefault(error),
                         accepts |-> <<requirements.v>>],
               headers |-> JsonHeaders @@ CorsHeaders])

\* The catch block of withX402Payment.
Error500 ==
  [status |-> 500,
   body |-> [error |-> <<"Payment processing error">>],
   headers |-> JsonHeaders]

FacilitatorRequest_OwnTimeout(payment, requirements) ==
  [paymentPayload |-> payment,
   paymentRequirements |-> [requirements EXCEPT !.maxTimeoutSeconds = 60]]

\* The request body sent to the facilitator.
FacilitatorRequest(payment, requirements) ==
  [paymentPayload |-> payment, paymentRequirements |-> requirements]

\* The fetches one callFacilitator makes: exactly one, whatever the answer.
FacilitatorAttempts_Retry(endpoint, body, outcome) ==
  IF outcome.kind = "json"
    THEN <<[call |-> endpoint, body |-> body, outcome |-> outcome]>>
  ELSE <<[call |-> endpoint, body |-> body, outcome |-> outcome],
         [call |-> endpoint, body |-> body, outcome |-> outcome]>>

FacilitatorAttempts(endpoint, body, outcome) ==
  <<[call |-> endpoint, body |-> body, outcome |-> outcome]>>

\* verifyPayment: the result, and the /verify call if one was made.
verifyPayment(e, h, m, hasVision, endpoint, outcome) ==
  LET requirements == createChatPaymentRequirements(e, m, hasVision, endpoint)
      payment == parsePaymentHeader(h)
      result == callFacilitator(outcome)
      failed == [done |-> TRUE, isValid |-> FALSE,
                 error |-> <<"Payment verification failed">>,
                 invalidReason |-> Undefined, payer |-> Undefined]
  IN  IF ~requirements.ok \/ ~payment.ok
        THEN [sent |-> <<>>, result |-> failed]
      ELSE [sent |-> FacilitatorAttempts("/verify",
                       FacilitatorRequest(payment.v, requirements.v), outcome),
            result |-> IF ~result.ok THEN failed
                       ELSE [done |-> TRUE,
                             isValid |-> JsBoolean(result.v.isValid),
                             error |-> result.v.error,
                             invalidReason |-> result.v.invalidReason,
                             payer |-> result.v.payer]]

\* settlePayment: the result, and the /settle call if one was made.
settlePayment(e, h, m, hasVision, endpoint, outcome) ==
  LET requirements == createChatPaymentRequirements(e, m, hasVision, endpoint)
      payment == parsePaymentHeader(h)
      result == callFacilitator(outcome)
      failed == [done |-> TRUE, success |-> FALSE, transaction |-> Undefined,
                 amount |-> Undefined,
                 error |-> <<"Payment settlement failed">>,
                 networkId |-> Undefined]
  IN  IF ~requirements.ok \/ ~payment.ok
        THEN [sent |-> <<>>, result |-> failed]
      ELSE [sent |-> FacilitatorAttempts("/settle",
                       FacilitatorRequest(payment.v, requirements.v), outcome),
            result |-> IF ~result.ok THEN failed
                       ELSE [done |-> TRUE,
                             success |-> JsBoolean(result.v.success),
                             transaction |-> result.v.transaction,
                             amount |-> result.v.amount,
                             error |-> result.v.error,
                             networkId |-> result.v.networkId]]

\* The model withX402Payment reads from a clone of the body.
ReadModel(body, defaultModel) ==
  IF body.json /\ body.model # "" THEN body.model ELSE defaultModel

\* new X402PaymentHandler(): the constructor reads the configuration.
NewHandler(e) == [constructed |-> TRUE, config |-> getX402Config(e)]

VerificationRejected_Never(v) == FALSE

\* if (!verification.isValid)
VerificationRejected(v) == ~v.isValid

SettlementRejected_Never(s) == FALSE

\* if (!settlement.success)
SettlementRejected(s) == ~s.success

\* A 402 built by handlePaymentFlow, or the 500 of the middleware when
\* building it throws.
Reject(e, m, error) ==
  LET r == create402Response(e, m, RouteHasVision, RouteEndpoint, error)
  IN  IF r.ok THEN r.v ELSE Error500

Init ==
  /\ env \in Envs
  /\ pc = "idle"
  /\ req = NoRequest
  /\ model = DefaultModel
  /\ handlerSingleton = NoHandler
  /\ calls = <<>>
  /\ verification = NoVerification
  /\ settlement = NoSettlement
  /\ paymentResult = NoPaymentResult
  /\ response = NoResponse
  /\ handlerResponse = NoResponse
  /\ messages = <<>>
  /\ transactions = <<>>
  /\ turn = NoTurn
  /\ writes = <<>>
  /\ aiResponse = NoAIResponse
  /\ chatInput = NoChatInput
  /\ config = NoConfig
  /\ wire = <<>>
  /\ wireParams = NoWireParams
  /\ AuxIdle
  /\ stream = NoStream
  /\ instances = NoInstances
  /\ tasks = NoTasks

\* An HTTP request reaches the function returned by withX402Payment.
Receive ==
  /\ pc = "idle"
  /\ \E r \in Requests : req' = r
  /\ pc' = "middleware"
  /\ UNCHANGED <<env, model, handlerSingleton, calls, verification, settlement,
                 paymentResult, response, handlerResponse, messages,
                 transactions, turn, writes, aiResponse, adapterVars>>

\* withX402Payment: the answer to a preflight request.
Preflight ==
  /\ pc = "middleware"
  /\ req.method = "OPTIONS"
  /\ response' = [status |-> 200, body |-> [error |-> <<>>], headers |-> CorsHeaders]
  /\ pc' = "done"
  /\ UNCHANGED <<env, req, model, handlerSingleton, calls, verification,
                 settlement, paymentResult, handlerResponse, messages,
                 transactions, turn, writes, aiResponse, adapterVars>>

\* withX402Payment up to the first facilitator call: read the model, get
\* the handler, and in handlePaymentFlow answer 402 when no proof is offered.
StartPaymentFlow ==
  /\ pc = "middleware"
  /\ req.method # "OPTIONS"
  /\ model' = ReadModel(req.body, DefaultModel)
  /\ LET h == IF handlerSingleton.constructed THEN handlerSingleton
              ELSE NewHandler(env)
         paymentHeader == extractPaymentHeader(req)
     IN  IF ~h.config.ok
           THEN /\ handlerSingleton' = handlerSingleton
                /\ response' = Error500
                /\ pc' = "done"
         ELSE /\ handlerSingleton' = h
              /\ IF HeaderMissing(paymentHeader)
                    THEN /\ response' = Reject(env, model', Undefined)
                         /\ pc' = "done"
                    ELSE /\ response' = response
                         /\ pc' = "verify"
  /\ UNCHANGED <<env, req, calls, verification, settlement, paymentResult,
                 handlerResponse, messages, transactions, turn, writes,
                 aiResponse, adapterVars>>

\* handlePaymentFlow: verifyPayment and the test of its result.
Verify ==
  /\ pc = "verify"
  /\ \E outcome \in VerifyOutcomes :
       LET v == verifyPayment(env, extractPaymentHeader(req), model,
                              RouteHasVision, RouteEndpoint, outcome)
       IN  /\ calls' = calls \o v.sent
           /\ verification' = v.result
           /\ IF VerificationRejected(v.result)
                 THEN /\ response' =
                           Reject(env, model,
                                  <<"Payment verification failed: ">> \o v.result.error)
                      /\ pc' = "done"
                 ELSE /\ response' = response
                      /\ pc' = "settle"
  /\ UNCHANGED <<env, req, model, handlerSingleton, settlement, paymentResult,
                 handlerResponse, messages, transactions, turn, writes,
                 aiResponse, adapterVars>>

\* handlePaymentFlow: settlePayment and the test of its result.
Settle ==
  /\ pc = "settle"
  /\ \E outcome \in SettleOutcomes :
       LET s == settlePayment(env, extractPaymentHeader(req), model,
                              RouteHasVision, RouteEndpoint, outcome)
           price == getModelPrice(env, model, RouteHasVision)
       IN  /\ calls' = calls \o s.sent
           /\ settlement' = s.result
           /\ IF SettlementRejected(s.result)
                 THEN /\ response' =
                           Reject(env, model,
                                  <<"Payment settlement failed: ">> \o s.result.error)
                      /\ pc' = "done"
                      /\ paymentResult' = paymentResult
                 ELSE IF ~price.ok
                   THEN /\ response' = Error500
                        /\ pc' = "done"
                        /\ paymentResult' = paymentResult
                 ELSE /\ response' = response
                      /\ pc' = "handler"
                      /\ paymentResult' = [success |-> TRUE,
                                            settlementResult |-> s.result,
                                            paymentAmount |-> price.v]
  /\ UNCHANGED <<env, req, model, handlerSingleton, verification,
                 handlerResponse, messages, transactions, turn, writes,
                 aiResponse, adapterVars>>

----------------------------------------------------------------------------
(* The chat orchestrator: handleChatRequest *)

ValidModels == {"deepseek", "gpt-5", "claude-sonnet-4-5"}
CHAT_DEFAULT_MODEL == "deepseek"

Whitespace == {" ", "\n", "\r"}

RECURSIVE TrimLeft(_)
TrimLeft(s) ==
  IF Len(s) > 0 /\ Head(s) \in Whitespace THEN TrimLeft(Tail(s)) ELSE s

RECURSIVE TrimRight(_)
TrimRight(s) ==
  IF Len(s) > 0 /\ s[Len(s)] \in Whitespace
    THEN TrimRight(SubSeq(s, 1, Len(s) - 1))
  ELSE s

\* input.replace(/\r/g, '').replace(/\s+$/gm, '').trim()
sanitizeUserMessage(input) ==
  TrimLeft(TrimRight(SelectSeq(input, LAMBDA c : c # "\r")))

\* The per-message price of the provider layer, in millionths of a USD
\* (0.03, 0.10 and 0.20 USD).
ADAPTER_MODEL_PRICING ==
  [m \in ValidModels |->
     CASE m = "deepseek" -> 30000
       [] m = "gpt-5" -> 100000
       [] m = "claude-sonnet-4-5" -> 200000]

\* microUsdcToUsd(microUsdc), in millionths of a USD.
microUsdcToUsd(microUsdc) == StrToNat(microUsdc)

ChatError_NoDetails(status, error, details) ==
  [status |-> status,
   body |-> [error |-> error, details |-> Undefined, model |-> "", cost |-> 0],
   headers |-> JsonHeaders]

\* An error response built by handleChatRequest; `details` is undefined on
\* the early returns.
ChatError(status, error, details) ==
  [status |-> status,
   body |-> [error |-> error, details |-> details, model |-> "", cost |-> 0],
   headers |-> JsonHeaders]

PrimaryWrites_WithTransaction ==
  {"createChat", "addMessage:user", "addMessage:assistant", "recordTransaction"}

ChatResponse(status, error) == ChatError(status, error, Undefined)

\* The 200 response of handleChatRequest.
ChatSuccess(m, costUsdc) ==
  [status |-> 200,
   body |-> [error |-> Undefined, details |-> Undefined, model |-> m,
             cost |-> costUsdc],
   headers |-> JsonHeaders]

\* The fields of the body only the orchestrator reads.
WalletAddresses == {Undefined, <<"W", "1">>}
UserMessages == {Undefined, <<" ">>, <<"h", "i">>}

MAX_ATTACHMENT_BYTES == 5 * 1024 * 1024
MAX_ATTACHMENTS == 4

Base64Chars == {"A", "B", "0", "9", "+", "/", "=", " "}
MimeTypes == {"image/png", "image/svg+xml", "application/pdf"}

\* A data URL is the pieces "data:", a mime type, ";base64," and the
\* characters of the payload; any other string is a single piece.
\* /^data:[\w.+-]+\/[\w.+-]+;base64,[A-Za-z0-9+/=\s]+$/i
isValidDataUrl(value) ==
  /\ Len(value) >= 4
  /\ value[1] = "data:"
  /\ value[2] \in MimeTypes
  /\ value[3] = ";base64,"
  /\ \A i \in 4..Len(value) : value[i] \in Base64Chars

\* Entries of body.files.
ImageFile == [name |-> <<"a.png">>, type |-> "image/png", size |-> 1024,
              dataUrl |-> <<"data:", "image/png", ";base64,", "A", "A", "A", "A">>]
PdfFile == [name |-> <<"d.pdf">>, type |-> "application/pdf", size |-> 2048,
            dataUrl |-> <<"data:", "application/pdf", ";base64,", "B", "0", "=">>]
OversizedImage == [ImageFile EXCEPT !.size = MAX_ATTACHMENT_BYTES + 1]
MalformedImage == [ImageFile EXCEPT !.dataUrl = <<"https://host/a.png">>]
SvgFile == [name |-> <<"v.svg">>, type |-> "image/svg+xml", size |-> 512,
            dataUrl |-> <<"data:", "image/svg+xml", ";base64,", "A", "9", "=">>]

\* type.startsWith('image/')
IsImageType(type) == type \in {"image/png", "image/svg+xml"}

HasImageEntry(files) == \E i \in 1..Len(files) : IsImageType(files[i].type)

\* The values of body.files a request may carry.
FileLists ==
  { <<>>, <<PdfFile>>,
    <<ImageFile>>, <<OversizedImage>>, <<ImageFile, MalformedImage>>,
    <<ImageFile, ImageFile, ImageFile, ImageFile, ImageFile>> }

\* One entry of normalizeAttachments passes the name, size and dataUrl tests.
AttachmentAccepted(entry) ==
  /\ Truthy(TrimLeft(TrimRight(entry.name)))
  /\ entry.size > 0
  /\ entry.size <= MAX_ATTACHMENT_BYTES
  /\ Truthy(entry.dataUrl)
  /\ isValidDataUrl(entry.dataUrl)

RECURSIVE NormalizeFrom(_, _, _)
\* The loop of normalizeAttachments from entry i on.
NormalizeFrom(input, i, normalized) ==
  IF i > Len(input) THEN normalized
  ELSE IF ~AttachmentAccepted(input[i]) THEN NormalizeFrom(input, i + 1, normalized)
  ELSE LET pushed == Append(normalized,
                            [fileName |-> TrimLeft(TrimRight(input[i].name)),
                             mimeType |-> input[i].type,
                             size |-> input[i].size,
                             dataUrl |-> input[i].dataUrl])
       IN  IF Len(pushed) >= MAX_ATTACHMENTS THEN pushed
           ELSE NormalizeFrom(input, i + 1, pushed)

normalizeAttachments(input) == NormalizeFrom(input, 1, <<>>)

\* The chat a request continues: none, one of the wallet's own chats, one
\* of them one message below the cap, one at the cap, one of another wallet.
ChatRefs == {"none", "own", "almostFull", "full", "foreign"}

MESSAGE_CAP == 80

\* getChatMessageCount of the chat a request names.
MessageCountOf(chatRef) ==
  CASE chatRef = "full" -> MESSAGE_CAP
    [] chatRef = "almostFull" -> MESSAGE_CAP - 1
    [] chatRef = "own" -> 2
    [] OTHER -> 0

\* The text of the 400 of a full chat (the literal of the code is Russian).
ChatLimitReached == <<"Chat reached the limit of 80 messages">>

\* The early returns of handleChatRequest, in the order of the code; the
\* empty sequence when the request passes them all.
ValidateChatRequest(body, walletAddress, message, files, chatRef, dbUp) ==
  LET rawMessage == IF message = Undefined THEN <<>> ELSE message
      attachments == Len(normalizeAttachments(files))
      m == IF body.model = "" THEN CHAT_DEFAULT_MODEL ELSE body.model
  IN  IF ~body.json
        THEN <<ChatError(500, <<"Internal server error">>, <<"Unexpected token">>)>>
      ELSE IF ~Truthy(walletAddress) \/ (~Truthy(rawMessage) /\ attachments = 0)
        THEN <<ChatResponse(400, <<"Missing content. Provide a message or at least one attachment.">>)>>
      ELSE IF m \notin ValidModels
        THEN <<ChatResponse(400, <<"Invalid model. Available: deepseek, gpt-5, claude-sonnet-4-5">>)>>
      ELSE IF ~Truthy(sanitizeUserMessage(rawMessage)) /\ attachments = 0
        THEN <<ChatResponse(422, <<"Message cannot be empty after sanitization.">>)>>
      ELSE IF ~dbUp
        THEN <<ChatError(500, <<"Internal server error">>, <<"database error">>)>>
      ELSE IF chatRef = "foreign"
        THEN <<ChatResponse(404, <<"Chat not found for this wallet.">>)>>
      ELSE IF chatRef # "none" /\ MessageCountOf(chatRef) >= MESSAGE_CAP
        THEN <<ChatResponse(400, ChatLimitReached)>>
      ELSE <<>>

\* payload.payload.signature ?? null
NullishToNull(v) == IF v = Undefined \/ v = Null THEN Null ELSE v

\* a ?? b
Coalesce(a, b) == IF a = Undefined \/ a = Null THEN b ELSE a

\* parsePayment(request, paymentContext): the signature and the amount the
\* orchestrator records.
parsePayment(r, paymentContext) ==
  LET header == extractPaymentHeader(r)
      payload == parsePaymentHeader(header)
      fromHeader ==
        IF ~HeaderMissing(header) /\ payload.ok
          THEN [signature |-> NullishToNull(payload.v.payload.signature),
                amountMicro |-> NullishToNull(payload.v.payload.authorization.value)]
        ELSE [signature |-> Null, amountMicro |-> Null]
      st == paymentContext.settlementResult
      settledAmount == Coalesce(st.amount,
                                Coalesce(paymentContext.paymentAmount,
                                         fromHeader.amountMicro))
  IN  [signature |-> IF ~Truthy(fromHeader.signature) /\ Truthy(st.transaction)
                       THEN st.transaction
                     ELSE fromHeader.signature,
       amountMicro |-> IF ~Truthy(fromHeader.amountMicro) /\ settledAmount # Null
                                                          /\ settledAmount # Undefined
                         THEN settledAmount
                       ELSE fromHeader.amountMicro]

\* paymentDetails.amountUsdc ?? cost: amountUsdc is set whenever
\* amountMicro is a non-empty string.
CostUsdc(paymentDetails, cost) ==
  IF Truthy(paymentDetails.amountMicro)
    THEN microUsdcToUsd(paymentDetails.amountMicro)
  ELSE cost

\* addPaymentResponseHeaders(response, settlement) of a handler h.
addPaymentResponseHeaders(h, resp, st) ==
  IF st.success /\ Truthy(st.transaction)
    THEN LET amount == IF Truthy(st.amount) THEN st.amount ELSE <<"0">>
             paymentResponse == [success |-> TRUE,
                                 transaction |-> st.transaction,
                                 network |-> h.config.v.network,
                                 amount |-> amount,
                                 timestamp |-> <<"toISOString">>]
             encoded == btoa(JsonStringify(paymentResponse,
                                           st.transaction \o amount))
         IN  IF ~encoded.ok THEN Throw
             ELSE Ok([resp EXCEPT !.headers =
                        ("X-PAYMENT-RESPONSE" :> encoded.v)
                        @@ ("Access-Control-Expose-Headers" :> "X-PAYMENT-RESPONSE")
                        @@ resp.headers])
  ELSE Ok(resp)

\* What the provider layer answers: an AIResponse, or a thrown error.
ProviderErrors == {<<"API error: Bad Gateway">>, <<"API key is not configured">>}
TokenUsages == {0, 1200}

\* The AIResponse every provider's chat() returns.
AIResponseOf(m, totalTokens) ==
  [done |-> TRUE, ok |-> TRUE, model |-> m, totalTokens |-> totalTokens,
   cost |-> ADAPTER_MODEL_PRICING[m], error |-> Undefined]

AIFailure(error) ==
  [done |-> TRUE, ok |-> FALSE, model |-> "", totalTokens |-> 0, cost |-> 0,
   error |-> error]

\* The message of the error callAIProvider rethrows.
FailedToCall(m, error) == <<"Failed to call ", m, ": ">> \o error

\* withX402Payment invokes the wrapped handler; handleChatRequest runs up
\* to the provider call.
InvokeHandler ==
  /\ pc = "handler"
  /\ calls' = Append(calls, [call |-> "handler", body |-> paymentResult])
  /\ \E walletAddress \in WalletAddresses, message \in UserMessages,
        files \in FileLists, chatRef \in ChatRefs, dbUp \in BOOLEAN :
       /\ HasImageEntry(files) = req.body.hasImages
       /\ LET early == ValidateChatRequest(req.body, walletAddress, message,
                                           files, chatRef, dbUp)
          IN  /\ turn' = [chatRef |-> chatRef, files |-> files]
              /\ IF early # <<>>
                    THEN /\ handlerResponse' = early[1]
                         /\ pc' = "attach"
                    ELSE /\ handlerResponse' = handlerResponse
                         /\ pc' = "provider"
  /\ UNCHANGED <<env, req, model, handlerSingleton, verification, settlement,
                 paymentResult, response, messages, transactions, writes,
                 aiResponse, adapterVars>>

\* callAIProvider: the reply of the model, or the error it rethrows, which
\* the catch block of handleChatRequest turns into a 500.
CallProvider ==
  /\ pc = "provider"
  /\ \/ /\ aiResponse' = AIResponseOf(model, 1200)
        /\ handlerResponse' = handlerResponse
        /\ pc' = "persist"
     \/ \E error \in ProviderErrors :
          /\ aiResponse' = AIFailure(error)
          /\ handlerResponse' = ChatError(500, <<"Internal server error">>,
                                          FailedToCall(model, error))
          /\ pc' = "attach"
  /\ UNCHANGED <<env, req, model, handlerSingleton, calls, verification,
                 settlement, paymentResult, response, messages, transactions,
                 turn, writes, adapterVars>>

\* The writes handleChatRequest makes after the reply, in the order of the
\* code; a write that is skipped by its condition is not in the list.
WritesOf(chatRef, attachments, paymentDetails) ==
  (IF chatRef = "none" THEN <<"createChat">> ELSE <<>>)
  \o <<"addMessage:user">>
  \o (IF Len(attachments) > 0 THEN <<"addMessageFiles">> ELSE <<>>)
  \o <<"addMessage:assistant">>
  \o (IF Truthy(paymentDetails.signature) THEN <<"recordTransaction">> ELSE <<>>)
  \o <<"recordApiUsage">>

\* The writes whose failure is not caught next to the call.
PrimaryWrites == {"createChat", "addMessage:user", "addMessage:assistant"}

\* The writes that are attempted when the write `failing` fails (0: none
\* fails): all of them, or those up to a failing primary write.
Attempted(ws, failing) ==
  IF failing > 0 /\ ws[failing] \in PrimaryWrites THEN SubSeq(ws, 1, failing)
  ELSE ws

\* handleChatRequest after the reply: the chat row, the user row, the
\* attachment rows, the assistant row with the payment signature and the
\* cost, the transaction row, the usage row, the 200 response.  A failed
\* primary write ends in the catch block; a failed addMessageFiles,
\* recordTransaction or recordApiUsage is logged and ignored.
Persist ==
  /\ pc = "persist"
  /\ LET attachments == normalizeAttachments(turn.files)
         paymentDetails == parsePayment(req, paymentResult)
         costUsdc == CostUsdc(paymentDetails, aiResponse.cost)
         ws == WritesOf(turn.chatRef, attachments, paymentDetails)
         userRow == [role |-> "user", transaction_signature |-> Null,
                     cost_usdc |-> 0]
         assistantRow == [role |-> "assistant",
                          transaction_signature |-> paymentDetails.signature,
                          cost_usdc |-> costUsdc]
     IN  \E failing \in 0..Len(ws) :
           LET done == Attempted(ws, failing)
               Wrote(op) == \E i \in 1..Len(done) : done[i] = op /\ i # failing
           IN  /\ writes' = [i \in 1..Len(done) |->
                               [op |-> done[i], ok |-> i # failing]]
               /\ messages' =
                     (IF Wrote("addMessage:user") THEN <<userRow>> ELSE <<>>)
                     \o (IF Wrote("addMessage:assistant") THEN <<assistantRow>>
                         ELSE <<>>)
               /\ transactions' =
                     IF Wrote("recordTransaction")
                       THEN <<[signature |-> paymentDetails.signature,
                               amount_usdc |-> costUsdc]>>
                     ELSE <<>>
               /\ handlerResponse' =
                     IF Len(done) < Len(ws) \/ (failing > 0 /\ ws[failing] \in PrimaryWrites)
                       THEN ChatError(500, <<"Internal server error">>,
                                      <<"database error">>)
                     ELSE ChatSuccess(model, costUsdc)
  /\ pc' = "attach"
  /\ UNCHANGED <<env, req, model, handlerSingleton, calls, verification,
                 settlement, paymentResult, response, turn, aiResponse,
                 adapterVars>>

\* withX402Payment after the handler returned: the receipt headers, or
\* the catch block when encoding them throws.
AttachReceipt ==
  /\ pc = "attach"
  /\ LET r == addPaymentResponseHeaders(handlerSingleton, handlerResponse,
                                        paymentResult.settlementResult)
     IN  response' = IF r.ok THEN r.v ELSE Error500
  /\ pc' = "done"
  /\ UNCHANGED <<env, req, model, handlerSingleton, calls, verification,
                 settlement, paymentResult, handlerResponse, messages,
                 transactions, turn, writes, aiResponse, adapterVars>>

Next ==
  \/ Receive
  \/ Preflight
  \/ StartPaymentFlow
  \/ Verify
  \/ Settle
  \/ InvokeHandler
  \/ CallProvider
  \/ Persist
  \/ AttachReceipt

Spec == Init /\ [][Next]_vars

----------------------------------------------------------------------------
(* The gate with a facilitator that may not answer *)

\* The facilitator accepts the request and never answers it.
SilentOutcome == [kind |-> "silent", body |-> NoVerifyBody]

\* callFacilitator awaits fetch without a signal or a timer: when no answer
\* and no transport error comes, the await of verifyPayment or of
\* settlePayment never resumes, and with it the request.
FacilitatorSilent ==
  /\ pc \in {"verify", "settle"}
  /\ LET sent == IF pc = "verify"
                   THEN verifyPayment(env, extractPaymentHeader(req), model,
                                      RouteHasVision, RouteEndpoint, SilentOutcome).sent
                 ELSE settlePayment(env, extractPaymentHeader(req), model,
                                    RouteHasVision, RouteEndpoint, SilentOutcome).sent
     IN  /\ sent # <<>>
         /\ calls' = calls \o sent
  /\ pc' = "awaiting"
  /\ UNCHANGED <<env, req, model, handlerSingleton, verification, settlement,
                 paymentResult, response, handlerResponse, messages, transactions,
                 turn, writes, aiResponse, adapterVars>>

LiveNext ==
  \/ Next
  \/ FacilitatorSilent

\* The process has the environment of development: no variable is set.
LiveInit == Init /\ env = [k \in EnvKeys |-> Undefined]

\* The runtime goes on with a request whenever one of its steps can be taken.
LiveSpec == LiveInit /\ [][LiveNext]_vars /\ WF_vars(LiveNext)

----------------------------------------------------------------------------
(* The provider layer: message content and its conversion per provider *)

\* MessageContent: a string, or an array of text and image parts.
StringContent(text) == [kind |-> "string", text |-> text, parts |-> <<>>]
ArrayContent(parts) == [kind |-> "array", text |-> <<>>, parts |-> parts]

TextPart(text) == [type |-> "text", text |-> text, url |-> <<>>]
ImagePart(url) == [type |-> "image_url", text |-> <<>>, url |-> url]

ChatMessage(role, content) == [role |-> role, content |-> content]

\* The marker of toTextOnlyMessage (the literal of the code is Russian).
IMAGES_UNSUPPORTED == <<"[Images are not supported by Deepseek]">>

RECURSIVE JoinNewline(_)
\* texts.join('\n')
JoinNewline(texts) ==
  IF Len(texts) = 0 THEN <<>>
  ELSE IF Len(texts) = 1 THEN texts[1]
  ELSE texts[1] \o <<"\n">> \o JoinNewline(Tail(texts))

\* content.filter(item => item.type === 'text').map(item => item.text)
TextsOf(parts) ==
  LET textParts == SelectSeq(parts, LAMBDA item : item.type = "text")
  IN  [i \in 1..Len(textParts) |-> textParts[i].text]

toTextOnlyMessage_PassThrough(msg) == msg

toTextOnlyMessage(msg) ==
  IF msg.content.kind = "string" THEN msg
  ELSE LET joined == JoinNewline(TextsOf(msg.content.parts))
       IN  ChatMessage(msg.role,
                       StringContent(IF Truthy(joined) THEN joined
                                     ELSE IMAGES_UNSUPPORTED))

toOpenAIMessage(msg) == ChatMessage(msg.role, msg.content)

\* The mime types /image\/\w+/ matches to their end: "+" of svg+xml is no
\* word character.
IsWordImageType(type) == type = "image/png"

\* url.startsWith('data:') and url.match(/^data:(image\/\w+);base64,(.+)$/)
MatchesImageDataUrl(url) ==
  /\ Len(url) >= 4
  /\ url[1] = "data:"
  /\ IsWordImageType(url[2])
  /\ url[3] = ";base64,"

\* One block of the typed-block format.
AnthropicBlock(item) ==
  IF item.type = "text"
    THEN [type |-> "text", text |-> item.text,
          source |-> [type |-> "none", media_type |-> "", data |-> <<>>]]
  ELSE IF MatchesImageDataUrl(item.url)
    THEN [type |-> "image", text |-> <<>>,
          source |-> [type |-> "base64", media_type |-> item.url[2],
                      data |-> SubSeq(item.url, 4, Len(item.url))]]
  ELSE [type |-> "image", text |-> <<>>,
        source |-> [type |-> "url", media_type |-> "", data |-> item.url]]

toAnthropicMessage(msg) ==
  IF msg.content.kind = "string" THEN msg
  ELSE ChatMessage(msg.role,
         [kind |-> "blocks", text |-> <<>>,
          parts |-> [i \in 1..Len(msg.content.parts) |->
                       AnthropicBlock(msg.content.parts[i])]])

\* value || fallback for a number: 0 is falsy.
NumberOr(value, fallback) == IF value = 0 THEN fallback ELSE value

\* config.messages.find(m => m.role === 'system'), as the text it gives:
\* typeof systemMessage?.content === 'string' ? systemMessage.content : undefined
SystemMessageText(msgs) ==
  LET found == SelectSeq(msgs, LAMBDA m : m.role = "system")
  IN  IF Len(found) > 0 /\ found[1].content.kind = "string"
        THEN found[1].content.text
      ELSE Undefined

\* The fields next to the messages in the request of each provider's chat().
\* Temperatures are tenths.  Only Claude's request has a system field.
WireParams(cfg) ==
  IF cfg.model = "claude-sonnet-4-5"
    THEN [system |-> IF Truthy(cfg.systemPrompt) THEN cfg.systemPrompt
                     ELSE SystemMessageText(cfg.messages),
          temperature |-> NumberOr(cfg.temperature, 7),
          max_tokens |-> NumberOr(cfg.maxTokens, 4096)]
  ELSE [system |-> Undefined,
        temperature |-> NumberOr(cfg.temperature, 7),
        max_tokens |-> NumberOr(cfg.maxTokens, 2000)]

\* The messages each provider's chat() puts in the body of its request.
WireMessages(cfg) ==
  CASE cfg.model = "deepseek" ->
         [i \in 1..Len(cfg.messages) |-> toTextOnlyMessage(cfg.messages[i])]
    [] cfg.model = "gpt-5" ->
         [i \in 1..Len(cfg.messages) |-> toOpenAIMessage(cfg.messages[i])]
    [] cfg.model = "claude-sonnet-4-5" ->
         LET kept == SelectSeq(cfg.messages, LAMBDA m : m.role # "system")
         IN  [i \in 1..Len(kept) |-> toAnthropicMessage(kept[i])]

----------------------------------------------------------------------------
(* The orchestrator: the messages built for the provider *)

VisionModels == {"gpt-5", "claude-sonnet-4-5"}

\* The placeholder stored as content of a message without text.
IMAGES_ONLY == <<"[Images only]">>

\* Rows of table messages with their files, as getChatMessages returns them.
StoredFile(mime, url) == [mime_type |-> mime, file_url |-> url]

HistoryRows ==
  { [role |-> "user", content |-> <<"h", "i">>, files |-> <<>>],
    [role |-> "user", content |-> <<"h", "i">>,
     files |-> <<StoredFile("image/png", ImageFile.dataUrl)>>],
    [role |-> "user", content |-> IMAGES_ONLY,
     files |-> <<StoredFile("image/png", ImageFile.dataUrl)>>],
    [role |-> "user", content |-> <<"h", "i">>,
     files |-> <<StoredFile("application/pdf", PdfFile.dataUrl)>>],
    [role |-> "assistant", content |-> <<"o", "k">>, files |-> <<>>] }

\* The history of a chat: no row, or one of the rows above.
Histories == {<<>>} \cup { <<row>> : row \in HistoryRows }

RowHasImages(row) ==
  \E i \in 1..Len(row.files) : IsImageType(row.files[i].mime_type)

\* One row of the history as a message for the model m.
PriorMessage(row, m) ==
  IF RowHasImages(row) /\ row.role = "user" /\ m \in VisionModels
    THEN LET images == SelectSeq(row.files,
                         LAMBDA f : IsImageType(f.mime_type) /\ Truthy(f.file_url))
         IN  ChatMessage(row.role,
               ArrayContent(
                 (IF Truthy(row.content) THEN <<TextPart(row.content)>> ELSE <<>>)
                 \o [i \in 1..Len(images) |-> ImagePart(images[i].file_url)]))
  ELSE ChatMessage(row.role, StringContent(row.content))

\* The text extractPdfText adds for one PDF attachment.
PdfText(attachment) ==
  <<"\n\n--- Content from ">> \o attachment.fileName \o <<" ---\n", "pdf text">>

RECURSIVE PdfTexts(_)
PdfTexts(attachments) ==
  IF Len(attachments) = 0 THEN <<>>
  ELSE (IF attachments[1].mimeType = "application/pdf"
          THEN PdfText(attachments[1]) ELSE <<>>)
       \o PdfTexts(Tail(attachments))

RECURSIVE JoinComma(_)
\* names.join(', ')
JoinComma(names) ==
  IF Len(names) = 0 THEN <<>>
  ELSE IF Len(names) = 1 THEN names[1]
  ELSE names[1] \o <<", ">> \o JoinComma(Tail(names))

\* The note added to the text when images go to Deepseek.
VisionNote(attachments) ==
  LET images == SelectSeq(attachments, LAMBDA a : IsImageType(a.mimeType))
  IN  <<"\n\n[Note: User attached images (">>
      \o JoinComma([i \in 1..Len(images) |-> images[i].fileName])
      \o <<"), but Deepseek doesn't support vision. Images are stored but cannot be analyzed.]">>

\* The content of the message of the current turn.
UserMessageContent(m, sanitizedUserMessage, attachments) ==
  LET sanitizedWithPdf == sanitizedUserMessage \o PdfTexts(attachments)
      images == SelectSeq(attachments, LAMBDA a : IsImageType(a.mimeType))
      hasImages == Len(images) > 0
  IN  IF hasImages /\ m \in VisionModels
        THEN ArrayContent(
               (IF Truthy(sanitizedWithPdf) THEN <<TextPart(sanitizedWithPdf)>>
                ELSE <<>>)
               \o [i \in 1..Len(images) |-> ImagePart(images[i].dataUrl)])
      ELSE StringContent(sanitizedWithPdf
                         \o (IF hasImages /\ m = "deepseek"
                               THEN VisionNote(attachments) ELSE <<>>))

\* chatMessages: the history, then the current turn.
BuildMessages(m, historyRows, sanitizedUserMessage, attachments) ==
  [i \in 1..Len(historyRows) |-> PriorMessage(historyRows[i], m)]
  \o <<ChatMessage("user",
                   UserMessageContent(m, sanitizedUserMessage, attachments))>>


----------------------------------------------------------------------------
(* The provider layer called on its own: aiProvider.chat(config) *)

NoEnv == [k \in EnvKeys |-> Undefined]

\* The parts an array content is made of.
Parts ==
  { TextPart(<<"h", "i">>), TextPart(<<"y", "o">>), TextPart(<<>>),
    ImagePart(ImageFile.dataUrl), ImagePart(SvgFile.dataUrl),
    ImagePart(<<"https://host/a.png">>) }

PartLists == UNION { [1..n -> Parts] : n \in 0..MaxParts }

Contents ==
  { StringContent(<<"h", "i">>), StringContent(<<>>) }
  \cup { ArrayContent(parts) : parts \in PartLists }

\* The configurations a caller of the exported chat() may pass.
DirectConfigs ==
  { [model |-> m, messages |-> <<ChatMessage(role, content)>>,
     temperature |-> setting[1], maxTokens |-> setting[2],
     systemPrompt |-> systemPrompt] :
      m \in ValidModels, role \in {"user", "system"}, content \in Contents,
      setting \in {<<0, 0>>, <<12, 512>>},
      systemPrompt \in {Undefined, <<"be brief">>} }

\* The prompt callAIProvider passes with every request of the chat endpoint.
SYSTEM_PROMPT == <<"You are an AI assistant for X402Chatly.">>

\* body.temperature in tenths and body.maxTokens; an absent field has the
\* default, 7 and 1024.
Temperatures == {0 - 5, 0, 7, 35}
MaxTokenValues == {100, 1024, 5000}

Min(a, b) == IF a < b THEN a ELSE b
Max(a, b) == IF a > b THEN a ELSE b

resolvedMaxTokens(maxTokens) == Min(Max(maxTokens, 256), 2048)
resolvedTemperature(temperature) == Min(Max(temperature, 0), 20)

\* The files of a request the provider layer is handed the attachments of.
AdapterFileLists == FileLists \cup { <<SvgFile>>, <<PdfFile, SvgFile>> }

SanitizedTexts == {<<>>, <<"h", "i">>}

KeyNotConfigured == <<"API key is not configured">>

AdapterInit ==
  /\ env = NoEnv
  /\ pc = "adapter"
  /\ req = NoRequest
  /\ model = DefaultModel
  /\ handlerSingleton = NoHandler
  /\ calls = <<>>
  /\ verification = NoVerification
  /\ settlement = NoSettlement
  /\ paymentResult = NoPaymentResult
  /\ response = NoResponse
  /\ handlerResponse = NoResponse
  /\ messages = <<>>
  /\ transactions = <<>>
  /\ turn = NoTurn
  /\ writes = <<>>
  /\ aiResponse = NoAIResponse
  /\ chatInput = NoChatInput
  /\ config = NoConfig
  /\ wire = <<>>
  /\ wireParams = NoWireParams
  /\ AuxIdle
  /\ stream = NoStream
  /\ instances = NoInstances
  /\ tasks = NoTasks

\* handleChatRequest builds chatMessages from the history of the chat, the
\* sanitized text and the accepted attachments, and hands them to
\* callAIProvider.
BuildChatMessages ==
  /\ pc = "adapter"
  /\ \E m \in ValidModels, historyRows \in Histories, text \in SanitizedTexts,
        files \in AdapterFileLists, temperature \in Temperatures,
        maxTokens \in MaxTokenValues :
       LET attachments == normalizeAttachments(files)
       IN  /\ Truthy(text) \/ Len(attachments) > 0
           /\ chatInput' = [built |-> TRUE, historyRows |-> historyRows,
                            text |-> text, attachments |-> attachments,
                            temperature |-> temperature, maxTokens |-> maxTokens]
           /\ config' = [model |-> m,
                         messages |-> BuildMessages(m, historyRows, text, attachments),
                         temperature |-> resolvedTemperature(temperature),
                         maxTokens |-> resolvedMaxTokens(maxTokens),
                         systemPrompt |-> SYSTEM_PROMPT]
  /\ pc' = "chat"
  /\ UNCHANGED <<auxVars, env, req, model, handlerSingleton, calls, verification,
                 settlement, paymentResult, response, handlerResponse, messages,
                 transactions, turn, writes, aiResponse, wire, wireParams,
                 stream, instances, tasks>>

\* Another caller hands a configuration of its own to chat().
DirectChat ==
  /\ pc = "adapter"
  /\ \E cfg \in DirectConfigs : config' = cfg
  /\ pc' = "chat"
  /\ UNCHANGED <<auxVars, env, req, model, handlerSingleton, calls, verification,
                 settlement, paymentResult, response, handlerResponse, messages,
                 transactions, turn, writes, aiResponse, chatInput, wire,
                 wireParams, stream, instances, tasks>>

\* AIProvider.chat: the provider of the model converts the messages, sends
\* them, and returns the AIResponse or throws.  Without an API key nothing
\* is sent.
ProviderChat ==
  /\ pc = "chat"
  /\ \/ \E totalTokens \in TokenUsages :
          /\ wire' = WireMessages(config)
          /\ wireParams' = WireParams(config)
          /\ aiResponse' = AIResponseOf(config.model, totalTokens)
     \/ \E error \in ProviderErrors :
          /\ wire' = IF error = KeyNotConfigured THEN <<>> ELSE WireMessages(config)
          /\ wireParams' = IF error = KeyNotConfigured THEN NoWireParams
                            ELSE WireParams(config)
          /\ aiResponse' = AIFailure(error)
  /\ pc' = "replied"
  /\ UNCHANGED <<auxVars, env, req, model, handlerSingleton, calls, verification,
                 settlement, paymentResult, response, handlerResponse, messages,
                 transactions, turn, writes, chatInput, config, stream,
                 instances, tasks>>

AdapterNext ==
  \/ BuildChatMessages
  \/ DirectChat
  \/ ProviderChat

AdapterSpec == AdapterInit /\ [][AdapterNext]_vars

----------------------------------------------------------------------------
(* The provider layer: streamChat *)

StreamChunk(text, isComplete) == [text |-> text, isComplete |-> isComplete]

\* The providers whose streamChat reads the body of a fetch response.
FetchProviders == {"deepseek", "gpt-5"}

\* The payloads of the data: events that are JSON.
JsonPayloads == {"{content:a}", "{content:b}", "{role:assistant}"}

\* JSON.parse(data).choices?.[0]?.delta?.content
DeltaContent(payload) ==
  CASE payload = "{content:a}" -> <<"a">>
    [] payload = "{content:b}" -> <<"b">>
    [] OTHER -> Undefined

\* The lines of the body of a streamed response, as pieces.
SseLines ==
  { <<"data: ", "{content:a}">>, <<"data: ", "{content:b}">>,
    <<"data: ", "{role:assistant}">>,
    <<"data: ", "[DONE]">>, <<"data: ", "[DONE]", "\r">>,
    <<"data: ", "{bad">>, <<>> }

SseEventLists == UNION { [1..n -> SseLines] : n \in 0..MaxLines }

RECURSIVE BodyText(_, _)
\* The text of a body: its lines, a line break after each of them but,
\* where the body is not terminated, the last.
BodyText(events, terminated) ==
  IF Len(events) = 0 THEN <<>>
  ELSE IF Len(events) = 1
    THEN events[1] \o (IF terminated THEN <<"\n">> ELSE <<>>)
  ELSE events[1] \o <<"\n">> \o BodyText(Tail(events), terminated)

\* The events of the stream of the Anthropic client.
SdkEvents == {"text_delta:a", "text_delta:b", "message_start"}
SdkEventLists == UNION { [1..n -> SdkEvents] : n \in 0..MaxLines }

\* chunk.type === 'content_block_delta' && chunk.delta.type === 'text_delta'
IsTextDelta(event) == event \in {"text_delta:a", "text_delta:b"}
SdkDeltaText(event) == IF event = "text_delta:a" THEN <<"a">> ELSE <<"b">>

RECURSIVE SplitLines(_, _, _)
\* text.split('\n'): the lines before each line break, then the rest.
SplitLines(text, current, lines) ==
  IF Len(text) = 0 THEN Append(lines, current)
  ELSE IF Head(text) = "\n" THEN SplitLines(Tail(text), <<>>, Append(lines, current))
  ELSE SplitLines(Tail(text), Append(current, Head(text)), lines)

\* What the body of the for loop does with one line.
ProcessLine_DoneSkipped(line) ==
  IF ~(Len(line) >= 1 /\ line[1] = "data: ") THEN [kind |-> "skip", text |-> <<>>]
  ELSE LET data == TrimLeft(TrimRight(Tail(line)))
       IN  IF ~(Len(data) = 1 /\ data[1] \in JsonPayloads)
             THEN [kind |-> "skip", text |-> <<>>]
           ELSE IF Truthy(DeltaContent(data[1]))
             THEN [kind |-> "delta", text |-> DeltaContent(data[1])]
           ELSE [kind |-> "skip", text |-> <<>>]

ProcessLine_MalformedEnds(line) ==
  IF ~(Len(line) >= 1 /\ line[1] = "data: ") THEN [kind |-> "skip", text |-> <<>>]
  ELSE LET data == TrimLeft(TrimRight(Tail(line)))
       IN  IF data = <<"[DONE]">> THEN [kind |-> "done", text |-> <<>>]
           ELSE IF ~(Len(data) = 1 /\ data[1] \in JsonPayloads)
             THEN [kind |-> "done", text |-> <<>>]
           ELSE IF Truthy(DeltaContent(data[1]))
             THEN [kind |-> "delta", text |-> DeltaContent(data[1])]
           ELSE [kind |-> "skip", text |-> <<>>]

ProcessLine(line) ==
  IF ~(Len(line) >= 1 /\ line[1] = "data: ") THEN [kind |-> "skip", text |-> <<>>]
  ELSE LET data == TrimLeft(TrimRight(Tail(line)))
       IN  IF data = <<"[DONE]">> THEN [kind |-> "done", text |-> <<>>]
           ELSE IF ~(Len(data) = 1 /\ data[1] \in JsonPayloads)
             THEN [kind |-> "skip", text |-> <<>>]
           ELSE IF Truthy(DeltaContent(data[1]))
             THEN [kind |-> "delta", text |-> DeltaContent(data[1])]
           ELSE [kind |-> "skip", text |-> <<>>]

NextBuffer_Dropped(split) == <<>>

\* buffer = lines.pop() || '': the text after the last line break.
NextBuffer(split) == split[Len(split)]

\* The sizes of the next value of reader.read(), in pieces.
ReadSizes(rest) == {1, 2, Len(rest)}

\* No request and no handler: the provider layer is used on its own.
GateIdle ==
  /\ env = NoEnv
  /\ req = NoRequest
  /\ model = DefaultModel
  /\ handlerSingleton = NoHandler
  /\ calls = <<>>
  /\ verification = NoVerification
  /\ settlement = NoSettlement
  /\ paymentResult = NoPaymentResult
  /\ response = NoResponse
  /\ handlerResponse = NoResponse
  /\ messages = <<>>
  /\ transactions = <<>>
  /\ turn = NoTurn
  /\ writes = <<>>
  /\ aiResponse = NoAIResponse

StreamInit ==
  /\ GateIdle
  /\ pc = "stream"
  /\ chatInput = NoChatInput
  /\ config = NoConfig
  /\ wire = <<>>
  /\ wireParams = NoWireParams
  /\ AuxIdle
  /\ stream = NoStream
  /\ instances = NoInstances
  /\ tasks = NoTasks

\* DeepseekProvider.streamChat and GPT5Provider.streamChat up to the loop:
\* without an API key or with a response that is not ok the generator
\* throws, otherwise it takes the reader of the body.
StreamOpen ==
  /\ pc = "stream"
  /\ stream.state = "none"
  /\ \E provider \in FetchProviders :
       \/ stream' = [stream EXCEPT !.state = "threw", !.provider = provider]
       \/ \E events \in SseEventLists, terminated \in BOOLEAN :
            stream' = [stream EXCEPT !.state = "reading", !.provider = provider,
                                     !.events = events, !.terminated = terminated,
                                     !.rest = BodyText(events, terminated),
                                     !.reader = "locked"]
  /\ UNCHANGED <<gateVars, auxVars, pc, chatInput, config, wire, wireParams, instances, tasks>>

\* ClaudeProvider.streamChat up to the loop: the client's stream.
ClaudeStreamOpen ==
  /\ pc = "stream"
  /\ stream.state = "none"
  /\ \/ stream' = [stream EXCEPT !.state = "threw", !.provider = "claude-sonnet-4-5"]
     \/ \E events \in SdkEventLists :
          stream' = [stream EXCEPT !.state = "events",
                                   !.provider = "claude-sonnet-4-5",
                                   !.sdkEvents = events, !.rest = events]
  /\ UNCHANGED <<gateVars, auxVars, pc, chatInput, config, wire, wireParams, instances, tasks>>

\* One turn of the while loop up to the for loop: reader.read(); at the end
\* of the body the loop is left and the closing chunk is yielded.
StreamRead ==
  /\ stream.state = "reading"
  /\ IF Len(stream.rest) = 0
       THEN stream' = [stream EXCEPT !.state = "atFinalYield", !.reader = "eof",
                                     !.chunks = Append(@, StreamChunk(<<>>, TRUE))]
     ELSE \E n \in ReadSizes(stream.rest) :
            LET value == SubSeq(stream.rest, 1, Min(n, Len(stream.rest)))
                split == SplitLines(stream.buffer \o value, <<>>, <<>>)
                lines == SubSeq(split, 1, Len(split) - 1)
            IN  stream' = [stream EXCEPT
                             !.rest = SubSeq(@, Len(value) + 1, Len(@)),
                             !.buffer = NextBuffer(split),
                             !.partial = @ \/ (split[Len(split)] # <<>>
                                                /\ Len(value) < Len(stream.rest)),
                             !.lines = lines,
                             !.state = IF Len(lines) = 0 THEN "reading" ELSE "lines"]
  /\ UNCHANGED <<gateVars, auxVars, pc, chatInput, config, wire, wireParams, instances, tasks>>

\* reader.read(), or the client's stream, rejects: the generator throws.
StreamReadFails ==
  /\ stream.state \in {"reading", "events"}
  /\ stream' = [stream EXCEPT !.state = "threw",
                              !.reader = IF @ = "locked" THEN "errored" ELSE @]
  /\ UNCHANGED <<gateVars, auxVars, pc, chatInput, config, wire, wireParams, instances, tasks>>

\* One turn of the for loop over the lines.
StreamLine ==
  /\ stream.state = "lines"
  /\ LET step == ProcessLine(Head(stream.lines))
         left == Tail(stream.lines)
     IN  stream' =
           CASE step.kind = "done" ->
                  [stream EXCEPT !.state = "atDoneYield",
                                 !.chunks = Append(@, StreamChunk(<<>>, TRUE))]
             [] step.kind = "delta" ->
                  [stream EXCEPT !.state = "atYield", !.lines = left,
                                 !.chunks = Append(@, StreamChunk(step.text, FALSE))]
             [] OTHER ->
                  [stream EXCEPT !.lines = left,
                                 !.state = IF Len(left) = 0 THEN "reading" ELSE "lines"]
  /\ UNCHANGED <<gateVars, auxVars, pc, chatInput, config, wire, wireParams, instances, tasks>>

\* One turn of the for await loop of ClaudeProvider.streamChat; after the
\* last event the closing chunk is yielded.
ClaudeEvent ==
  /\ stream.state = "events"
  /\ stream' =
       IF Len(stream.rest) = 0
         THEN [stream EXCEPT !.state = "atFinalYield",
                             !.chunks = Append(@, StreamChunk(<<>>, TRUE))]
       ELSE IF IsTextDelta(Head(stream.rest))
         THEN [stream EXCEPT !.state = "atYield", !.rest = Tail(@),
                             !.chunks = Append(@, StreamChunk(SdkDeltaText(Head(stream.rest)), FALSE))]
       ELSE [stream EXCEPT !.rest = Tail(@)]
  /\ UNCHANGED <<gateVars, auxVars, pc, chatInput, config, wire, wireParams, instances, tasks>>

\* The consumer asks for the next chunk: the generator goes on after the
\* yield; after the yield of [DONE] it returns, after the closing yield it
\* ends.
ConsumerNext ==
  /\ stream.state \in {"atYield", "atDoneYield", "atFinalYield"}
  /\ stream' =
       [stream EXCEPT !.state =
          IF stream.state \in {"atDoneYield", "atFinalYield"} THEN "returned"
          ELSE IF stream.provider = "claude-sonnet-4-5" THEN "events"
          ELSE IF Len(stream.lines) = 0 THEN "reading" ELSE "lines"]
  /\ UNCHANGED <<gateVars, auxVars, pc, chatInput, config, wire, wireParams, instances, tasks>>

\* The consumer stops iterating: return() ends the generator at the yield.
\* streamChat has no finally block, so nothing else runs.
ConsumerReturn ==
  /\ stream.state \in {"atYield", "atDoneYield", "atFinalYield"}
  /\ stream' = [stream EXCEPT !.state = "cancelled"]
  /\ UNCHANGED <<gateVars, auxVars, pc, chatInput, config, wire, wireParams, instances, tasks>>

StreamNext ==
  \/ StreamOpen
  \/ ClaudeStreamOpen
  \/ StreamRead
  \/ StreamReadFails
  \/ StreamLine
  \/ ClaudeEvent
  \/ ConsumerNext
  \/ ConsumerReturn

StreamSpec == StreamInit /\ [][StreamNext]_vars

----------------------------------------------------------------------------
(* The lazily constructed objects, under concurrent requests *)

LazyGet_AlwaysNew(current, count) == [instance |-> count + 1, count |-> count + 1]

\* if (!x) { x = new X(); } return x;  An instance is named by the number of
\* constructions at the time of its own.  The test and the assignment have no
\* await between them, so no other request runs in between.
LazyGet(current, count) ==
  IF current = 0 THEN [instance |-> count + 1, count |-> count + 1]
  ELSE [instance |-> current, count |-> count]

NewTask == [pc |-> "waiting", model |-> "", handler |-> 0, provider |-> 0,
            adapter |-> 0, handlerAgain |-> 0]

LazyInit ==
  /\ GateIdle
  /\ pc = "lazy"
  /\ chatInput = NoChatInput
  /\ config = NoConfig
  /\ wire = <<>>
  /\ wireParams = NoWireParams
  /\ AuxIdle
  /\ stream = NoStream
  /\ \E treasury \in BOOLEAN : instances = [NoInstances EXCEPT !.treasury = treasury]
  /\ tasks = [t \in 1..MaxTasks |-> NewTask]

\* The module ai-providers.ts is evaluated: aiProvider = getAIProvider().
LoadModule ==
  /\ pc = "lazy"
  /\ ~instances.loaded
  /\ LET got == LazyGet(instances.aiProvider, instances.constructed.aiProvider)
     IN  instances' = [instances EXCEPT !.loaded = TRUE,
                                        !.aiProvider = got.instance,
                                        !.constructed.aiProvider = got.count]
  /\ UNCHANGED <<gateVars, auxVars, pc, chatInput, config, wire, wireParams, stream, tasks>>

\* withX402Payment up to `await clonedReq.json()`.
TaskArrives ==
  /\ instances.loaded
  /\ \E t \in 1..Len(tasks), m \in ValidModels :
       /\ tasks[t].pc = "waiting"
       /\ tasks' = [tasks EXCEPT ![t].pc = "gate", ![t].model = m]
  /\ UNCHANGED <<gateVars, auxVars, pc, chatInput, config, wire, wireParams, stream, instances>>

\* getX402Handler().handlePaymentFlow(...) up to its first await.  Without a
\* treasury address the constructor throws and nothing is assigned.
TaskGetsHandler ==
  /\ \E t \in 1..Len(tasks) :
       /\ tasks[t].pc = "gate"
       /\ IF ~instances.treasury
            THEN /\ tasks' = [tasks EXCEPT ![t].pc = "failed"]
                 /\ instances' = instances
          ELSE LET got == LazyGet(instances.handler, instances.constructed.handler)
               IN  /\ instances' = [instances EXCEPT !.handler = got.instance,
                                                     !.constructed.handler = got.count]
                   /\ tasks' = [tasks EXCEPT ![t].pc = "flow",
                                             ![t].handler = got.instance]
  /\ UNCHANGED <<gateVars, auxVars, pc, chatInput, config, wire, wireParams, stream>>

\* The payment flow ends: with a 402, or with the call of the handler up to
\* the await of callAIProvider.
TaskPaid ==
  /\ \E t \in 1..Len(tasks), paid \in BOOLEAN :
       /\ tasks[t].pc = "flow"
       /\ tasks' = [tasks EXCEPT ![t].pc = IF paid THEN "chat" ELSE "done"]
  /\ UNCHANGED <<gateVars, auxVars, pc, chatInput, config, wire, wireParams, stream, instances>>

\* aiProvider.chat(config): getDeepseek(), getGPT5() or getClaude(), then the
\* provider's chat up to its await.
TaskCallsProvider ==
  /\ \E t \in 1..Len(tasks) :
       /\ tasks[t].pc = "chat"
       /\ LET m == tasks[t].model
              got == LazyGet(instances.adapters[m], instances.constructed.adapters[m])
          IN  /\ instances' = [instances EXCEPT !.adapters[m] = got.instance,
                                                !.constructed.adapters[m] = got.count]
              /\ tasks' = [tasks EXCEPT ![t].pc = "receipt",
                                        ![t].provider = instances.aiProvider,
                                        ![t].adapter = got.instance]
  /\ UNCHANGED <<gateVars, auxVars, pc, chatInput, config, wire, wireParams, stream>>

\* getX402Handler().addPaymentResponseHeaders(...) after the handler returned.
TaskAttachesReceipt ==
  /\ \E t \in 1..Len(tasks) :
       /\ tasks[t].pc = "receipt"
       /\ LET got == LazyGet(instances.handler, instances.constructed.handler)
          IN  /\ instances' = [instances EXCEPT !.handler = got.instance,
                                                !.constructed.handler = got.count]
              /\ tasks' = [tasks EXCEPT ![t].pc = "done",
                                        ![t].handlerAgain = got.instance]
  /\ UNCHANGED <<gateVars, auxVars, pc, chatInput, config, wire, wireParams, stream>>

LazyNext ==
  \/ LoadModule
  \/ TaskArrives
  \/ TaskGetsHandler
  \/ TaskPaid
  \/ TaskCallsProvider
  \/ TaskAttachesReceipt

LazySpec == LazyInit /\ [][LazyNext]_vars

----------------------------------------------------------------------------
(* The base64/JSON envelope of the X-PAYMENT header, character by character *)

\* The code points the strings of a payload are made of: a, the quote, the
\* backslash, e with acute accent (Latin-1) and the capital omega.
CodePoints == {97, 34, 92, 233, 937}

CodecStrings == UNION { [1..n -> CodePoints] : n \in 0..MaxChars }

\* The strings of a PaymentPayload the envelope carries: payload.signature
\* and payload.authorization.value.
CodecPayloads ==
  { [signature |-> s, value |-> <<51, 48>>] : s \in CodecStrings }

RECURSIVE JsonEscape(_)
\* JSON.stringify of the characters of a string: quote and backslash are
\* escaped, every other character of the model is written as it is.
JsonEscape(s) ==
  IF Len(s) = 0 THEN <<>>
  ELSE (IF Head(s) \in {34, 92} THEN <<92, Head(s)>> ELSE <<Head(s)>>)
       \o JsonEscape(Tail(s))

JsonQuote(s) == <<34>> \o JsonEscape(s) \o <<34>>

\* JSON.stringify(p): the two strings between braces, keys left out.
StringifyPayload(p) ==
  <<123>> \o JsonQuote(p.signature) \o <<44>> \o JsonQuote(p.value) \o <<125>>

RECURSIVE Utf8Encode(_)
\* The UTF-8 bytes of a text.
Utf8Encode(text) ==
  IF Len(text) = 0 THEN <<>>
  ELSE LET c == Head(text)
       IN  (IF c < 128 THEN <<c>>
            ELSE IF c < 2048 THEN <<192 + (c \div 64), 128 + (c % 64)>>
            ELSE <<224 + (c \div 4096), 128 + ((c \div 64) % 64), 128 + (c % 64)>>)
           \o Utf8Encode(Tail(text))

RECURSIVE Utf8Decode(_)
\* bytes.toString('utf-8'): a byte that starts no well-formed sequence gives
\* U+FFFD.
Utf8Decode(bytes) ==
  IF Len(bytes) = 0 THEN <<>>
  ELSE LET b == bytes[1]
           IsContinuation(i) == i <= Len(bytes) /\ bytes[i] >= 128 /\ bytes[i] < 192
       IN  IF b < 128 THEN <<b>> \o Utf8Decode(Tail(bytes))
           ELSE IF b >= 194 /\ b < 224 /\ IsContinuation(2)
             THEN <<(b - 192) * 64 + (bytes[2] - 128)>>
                  \o Utf8Decode(SubSeq(bytes, 3, Len(bytes)))
           ELSE IF b >= 224 /\ b < 240 /\ IsContinuation(2) /\ IsContinuation(3)
             THEN <<(b - 224) * 4096 + (bytes[2] - 128) * 64 + (bytes[3] - 128)>>
                  \o Utf8Decode(SubSeq(bytes, 4, Len(bytes)))
           ELSE <<65533>> \o Utf8Decode(Tail(bytes))

RECURSIVE Base64Encode(_)
\* The base64 digits of bytes, as numbers 0..63, with 64 for the padding.
Base64Encode(bytes) ==
  IF Len(bytes) = 0 THEN <<>>
  ELSE IF Len(bytes) = 1
    THEN LET n == bytes[1] * 65536
         IN  <<n \div 262144, (n \div 4096) % 64, 64, 64>>
  ELSE IF Len(bytes) = 2
    THEN LET n == bytes[1] * 65536 + bytes[2] * 256
         IN  <<n \div 262144, (n \div 4096) % 64, (n \div 64) % 64, 64>>
  ELSE LET n == bytes[1] * 65536 + bytes[2] * 256 + bytes[3]
       IN  <<n \div 262144, (n \div 4096) % 64, (n \div 64) % 64, n % 64>>
           \o Base64Encode(SubSeq(bytes, 4, Len(bytes)))

RECURSIVE Base64Decode(_)
\* The bytes of base64 digits.
Base64Decode(digits) ==
  IF Len(digits) < 4 THEN <<>>
  ELSE LET d3 == IF digits[3] = 64 THEN 0 ELSE digits[3]
           d4 == IF digits[4] = 64 THEN 0 ELSE digits[4]
           n == digits[1] * 262144 + digits[2] * 4096 + d3 * 64 + d4
       IN  (IF digits[3] = 64 THEN <<n \div 65536>>
            ELSE IF digits[4] = 64 THEN <<n \div 65536, (n \div 256) % 256>>
            ELSE <<n \div 65536, (n \div 256) % 256, n % 256>>)
           \o Base64Decode(SubSeq(digits, 5, Len(digits)))

\* The encoders a client has for base64(JSON.stringify(p)): the base64 of
\* the UTF-8 bytes of the text, or btoa(text), which takes each character
\* as one byte and throws on a character above U+00FF.
Encoders == {"utf8", "btoa"}

EncodeHeader(encoder, text) ==
  IF encoder = "utf8" THEN Ok(Base64Encode(Utf8Encode(text)))
  ELSE IF \E i \in 1..Len(text) : text[i] > 255 THEN Throw
  ELSE Ok(Base64Encode(text))

\* The runtimes decodeBase64 distinguishes: with atob, or with Buffer only.
Runtimes == {"atob", "buffer"}

\* decodeBase64 on the digits of the header: atob(value) gives one character
\* per byte, Buffer.from(value, 'base64').toString('utf-8') decodes UTF-8.
decodeBase64Text(runtime, value) ==
  IF runtime = "atob" THEN Base64Decode(value)
  ELSE Utf8Decode(Base64Decode(value))

RECURSIVE ReadJsonString(_, _, _)
\* JSON.parse inside a string, after its opening quote: the characters up to
\* the closing quote, and the position after it.
ReadJsonString(text, i, acc) ==
  IF i > Len(text) THEN [ok |-> FALSE, v |-> acc, next |-> i]
  ELSE IF text[i] = 34 THEN [ok |-> TRUE, v |-> acc, next |-> i + 1]
  ELSE IF text[i] = 92
    THEN IF i + 1 <= Len(text) /\ text[i + 1] \in {34, 92}
           THEN ReadJsonString(text, i + 2, Append(acc, text[i + 1]))
         ELSE [ok |-> FALSE, v |-> acc, next |-> i]
  ELSE ReadJsonString(text, i + 1, Append(acc, text[i]))

\* JSON.parse(decoded) of a text StringifyPayload may have written.
ParsePayload(text) ==
  IF ~(Len(text) >= 2 /\ text[1] = 123 /\ text[2] = 34) THEN Throw
  ELSE LET first == ReadJsonString(text, 3, <<>>)
       IN  IF ~(first.ok /\ first.next + 1 <= Len(text)
                  /\ text[first.next] = 44 /\ text[first.next + 1] = 34)
             THEN Throw
           ELSE LET second == ReadJsonString(text, first.next + 2, <<>>)
                IN  IF second.ok /\ second.next = Len(text) /\ text[second.next] = 125
                      THEN Ok([signature |-> first.v, value |-> second.v])
                    ELSE Throw

\* parsePaymentHeader on the digits of the header.
parsePaymentHeaderText(runtime, paymentHeader) ==
  ParsePayload(decodeBase64Text(runtime, paymentHeader))

\* The provider layer is not in use.
ProviderIdle ==
  /\ chatInput = NoChatInput
  /\ config = NoConfig
  /\ wire = <<>>
  /\ wireParams = NoWireParams
  /\ stream = NoStream
  /\ instances = NoInstances
  /\ tasks = NoTasks

providerVars == <<chatInput, config, wire, wireParams, stream, instances, tasks>>

CodecInit ==
  /\ GateIdle
  /\ ProviderIdle
  /\ pc = "codec"
  /\ AuxIdle

\* The spellings of the header name a client may use.
PaymentHeaderNames == {"X-PAYMENT", "x-payment", "X-Payment", "x-Payment"}

\* name.toLowerCase()
LowerCase(name) ==
  IF name \in PaymentHeaderNames THEN "x-payment" ELSE "content-type"

\* The headers of a request: a Headers object or a plain record, holding
\* the content type and, under `name`, the payment header.
HeadersOf(kind, name, value) ==
  [kind |-> kind,
   entries |-> {[name |-> "Content-Type", value |-> <<0>>],
                [name |-> name, value |-> value]}]

HeadersWithout(kind) ==
  [kind |-> kind, entries |-> {[name |-> "Content-Type", value |-> <<0>>]}]

\* headers[key] of a plain record.
RecordGet(h, key) ==
  IF \E entry \in h.entries : entry.name = key
    THEN [found |-> TRUE,
          value |-> (CHOOSE entry \in h.entries : entry.name = key).value]
  ELSE [found |-> FALSE, value |-> <<>>]

\* headers.get(key) of a Headers object: the name is matched without case.
HeadersGet(h, key) ==
  IF \E entry \in h.entries : LowerCase(entry.name) = LowerCase(key)
    THEN [found |-> TRUE,
          value |-> (CHOOSE entry \in h.entries :
                       LowerCase(entry.name) = LowerCase(key)).value]
  ELSE [found |-> FALSE, value |-> <<>>]

\* extractPaymentHeader: found is FALSE for null.
extractPaymentHeaderFrom(h) ==
  IF h.kind = "Headers" THEN HeadersGet(h, "X-PAYMENT")
  ELSE LET upper == RecordGet(h, "X-PAYMENT")
           lower == RecordGet(h, "x-payment")
       IN  IF upper.found /\ upper.value # <<>> THEN upper
           ELSE IF lower.found /\ lower.value # <<>> THEN lower
           ELSE [found |-> FALSE, value |-> <<>>]

\* A client builds the X-PAYMENT header of a payload and sends it.
ClientEncodes ==
  /\ pc = "codec"
  /\ codec.stage = "none"
  /\ \E p \in CodecPayloads, encoder \in Encoders, name \in PaymentHeaderNames,
        kind \in {"Headers", "record"} :
       LET encoded == EncodeHeader(encoder, StringifyPayload(p))
       IN  codec' = [codec EXCEPT !.p = p, !.encoder = encoder,
                                  !.stage = IF encoded.ok THEN "sent" ELSE "encodeThrew",
                                  !.header = IF encoded.ok THEN encoded.v ELSE <<>>,
                                  !.headers = IF encoded.ok
                                                THEN HeadersOf(kind, name, encoded.v)
                                              ELSE HeadersWithout(kind)]
  /\ UNCHANGED <<gateVars, providerVars, pc, route, db>>

\* A client sends a request without the header.
ClientSendsNoProof ==
  /\ pc = "codec"
  /\ codec.stage = "none"
  /\ \E kind \in {"Headers", "record"} :
       codec' = [codec EXCEPT !.stage = "sent", !.headers = HeadersWithout(kind)]
  /\ UNCHANGED <<gateVars, providerVars, pc, route, db>>

\* handlePaymentFlow: this.extractPaymentHeader(request.headers).
ServerExtracts ==
  /\ codec.stage = "sent"
  /\ LET got == extractPaymentHeaderFrom(codec.headers)
     IN  codec' = [codec EXCEPT !.stage = IF got.found THEN "extracted" ELSE "noProof",
                                !.extracted = got.value]
  /\ UNCHANGED <<gateVars, providerVars, pc, route, db>>

\* The gate parses the header.
ServerParses ==
  /\ codec.stage = "extracted"
  /\ \E runtime \in Runtimes :
       LET parsed == parsePaymentHeaderText(runtime, codec.extracted)
       IN  codec' = [codec EXCEPT !.runtime = runtime,
                                  !.stage = IF parsed.ok THEN "parsed" ELSE "parseThrew",
                                  !.parsed = IF parsed.ok THEN parsed.v ELSE <<>>]
  /\ UNCHANGED <<gateVars, providerVars, pc, route, db>>

CodecNext ==
  \/ ClientEncodes
  \/ ClientSendsNoProof
  \/ ServerExtracts
  \/ ServerParses

CodecSpec == CodecInit /\ [][CodecNext]_vars

----------------------------------------------------------------------------
(* Properties *)

\* The number of entries of the call log made to `target`.
CallsTo(target) == Len(SelectSeq(calls, LAMBDA c : c.call = target))

SettleCalled == CallsTo("/settle") > 0
HandlerInvoked == CallsTo("handler") > 0

\* The facilitator answered /verify with isValid = true.
VerifyReturnedValid ==
  /\ Len(calls) >= 1
  /\ calls[1].call = "/verify"
  /\ calls[1].outcome.kind = "json"
  /\ calls[1].outcome.body.isValid = "true"

\* The request is past the point where handlePaymentFlow settles.
PastSettle == pc \in {"handler", "provider", "persist", "attach", "done"}

\* A 402 whose body is {x402Version: 1, error, accepts: [one element]}.
Is402WithOneAccept(r) ==
  /\ r.status = 402
  /\ DOMAIN r.body = {"x402Version", "error", "accepts"}
  /\ r.body.x402Version = 1
  /\ Len(r.body.accepts) = 1

\* The configuration of the process resolves: a treasury wallet is set or
\* the process does not run in production.
ConfigResolves == getX402Config(env).ok

\* C1: the facilitator's /settle is called if and only if its /verify,
\* called before for the same request, answered isValid = true; after a
\* failed or invalid verification /settle is never called.
C1_SettleIffVerifyValid ==
  /\ SettleCalled => (VerifyReturnedValid /\ verification.isValid)
  /\ (PastSettle /\ VerifyReturnedValid) => SettleCalled
  /\ (verification.done /\ ~verification.isValid) => ~SettleCalled

C1_Witness ==
  /\ pc = "done"
  /\ VerifyReturnedValid
  /\ SettleCalled

\* C2: the wrapped handler is invoked only after /verify answered valid
\* and then /settle answered success, in this order, and a request that
\* ends in a 402 never invoked it.
C2_HandlerOnlyAfterSettled ==
  /\ HandlerInvoked =>
        /\ Len(calls) = 3
        /\ calls[1].call = "/verify"
        /\ calls[1].outcome.body.isValid = "true"
        /\ calls[2].call = "/settle"
        /\ calls[2].outcome.body.success = "true"
        /\ calls[3].call = "handler"
        /\ verification.isValid
        /\ settlement.success
  /\ response.status = 402 =>
        /\ ~HandlerInvoked
        /\ messages = <<>>
        /\ transactions = <<>>

C2_Witness ==
  /\ pc = "done"
  /\ HandlerInvoked
  /\ response.status = 200

\* C3: one request makes at most one /verify call and at most one /settle
\* call, whatever the facilitator answers.
C3_AtMostOneVerifyOneSettle ==
  /\ CallsTo("/verify") <= 1
  /\ CallsTo("/settle") <= 1

C3_Witness ==
  /\ pc = "done"
  /\ CallsTo("/verify") = 1
  /\ CallsTo("/settle") = 1
  /\ calls[2].outcome.kind = "transport"

VerifyFailure(o) == o.kind # "json" \/ o.body.isValid # "true"
SettleFailure(o) == o.kind # "json" \/ o.body.success # "true"

\* C5: whenever the facilitator fails a /verify or /settle call (transport
\* error, non-2xx status, unparseable body, isValid or success false or
\* absent) the gate holds a failed result and the response is a 402 with
\* an accepts array, never a 5xx.
C5_FacilitatorFailureIs402 ==
  \A i \in 1..Len(calls) :
    /\ (calls[i].call = "/verify" /\ VerifyFailure(calls[i].outcome)) =>
          /\ verification.done
          /\ ~verification.isValid
          /\ Is402WithOneAccept(response)
    /\ (calls[i].call = "/settle" /\ SettleFailure(calls[i].outcome)) =>
          /\ settlement.done
          /\ ~settlement.success
          /\ Is402WithOneAccept(response)

C5_Witness ==
  /\ pc = "done"
  /\ Len(calls) = 2
  /\ calls[2].call = "/settle"
  /\ calls[2].outcome.kind = "status"
  /\ response.status = 402

\* The X-PAYMENT header is present and is not base64 of JSON.
MalformedProof == req.header.kind \in {"notBase64", "notJson"}

ReceiptOf(r) == parsePaymentHeader(r.headers["X-PAYMENT-RESPONSE"])

\* C7, for a settlement that returned a transaction id: the response of
\* every request whose settlement succeeded carries an X-PAYMENT-RESPONSE
\* header that decodes to {success, transaction, network, amount,
\* timestamp} with the settlement's transaction, and
\* Access-Control-Expose-Headers: X-PAYMENT-RESPONSE, whatever status the
\* handler produced.
C7_ReceiptOnEverySettledResponse ==
  (pc = "done" /\ settlement.done /\ settlement.success
     /\ Truthy(settlement.transaction)) =>
    /\ "X-PAYMENT-RESPONSE" \in DOMAIN response.headers
    /\ ReceiptOf(response).ok
    /\ DOMAIN ReceiptOf(response).v =
         {"success", "transaction", "network", "amount", "timestamp"}
    /\ ReceiptOf(response).v.transaction = settlement.transaction
    /\ response.headers["Access-Control-Expose-Headers"] = "X-PAYMENT-RESPONSE"
    /\ response.status = handlerResponse.status

\* C8: when the settlement of a granted request returned a transaction
\* id, the receipt id the orchestrator persists (transaction_signature of
\* the assistant message, signature of the transaction row) is that id.
C8_PersistedReceiptIsSettlementTransaction ==
  Truthy(settlement.transaction) =>
    /\ \A i \in 1..Len(messages) :
          messages[i].role = "assistant" =>
            messages[i].transaction_signature = settlement.transaction
    /\ \A i \in 1..Len(transactions) :
          transactions[i].signature = settlement.transaction

\* The price the claim expects a request to be quoted.
ExpectedQuote ==
  IF req.body.hasImages THEN AI_MODEL_PRICING(env)[model].visionPrice
  ELSE AI_MODEL_PRICING(env)[model].pricePerMessage

\* C9: the maxAmountRequired quoted to a chat request, in the accepts of
\* its 402 and in the requirements sent to the facilitator, is the
\* model's visionPrice when the request has image attachments and its
\* pricePerMessage otherwise.
C9_QuoteFollowsVisionContent ==
  /\ (pc = "done" /\ response.status = 402) =>
        response.body.accepts[1].maxAmountRequired = ExpectedQuote
  /\ \A i \in 1..Len(calls) :
        calls[i].call \in {"/verify", "/settle"} =>
          calls[i].body.paymentRequirements.maxAmountRequired = ExpectedQuote

\* C10: for every model and every setting of the price variables, the
\* vision price read as an integer is at least the base price.
C10_VisionPriceAtLeastBasePrice ==
  \A m \in KnownModels :
    StrToNat(getModelPrice(env, m, TRUE).v) >= StrToNat(getModelPrice(env, m, FALSE).v)

----------------------------------------------------------------------------
(* Properties of the chat orchestrator *)

\* The request went through the whole of handleChatRequest and got its 200.
ChatSucceeded == HandlerInvoked /\ pc \in {"attach", "done"} /\ handlerResponse.status = 200

\* C11: the cost of a chat reply is the fixed per-model price of the
\* requested model, whatever the token usage and the payment payload: the
\* cost of the AIResponse, the cost of the 200 response of the chat
\* endpoint, and the cost persisted with the assistant message and the
\* transaction.
C11_CostIsFixedModelPrice ==
  /\ (aiResponse.done /\ aiResponse.ok)
       => aiResponse.cost = ADAPTER_MODEL_PRICING[aiResponse.model]
  /\ ChatSucceeded
       => /\ handlerResponse.body.cost = ADAPTER_MODEL_PRICING[model]
          /\ \A i \in 1..Len(messages) :
               messages[i].role = "assistant"
                 => messages[i].cost_usdc = ADAPTER_MODEL_PRICING[model]
          /\ \A i \in 1..Len(transactions) :
               transactions[i].amount_usdc = ADAPTER_MODEL_PRICING[model]

\* The handler refused the request because its chat is at the cap.
RejectedAtCap ==
  /\ HandlerInvoked
  /\ pc \in {"attach", "done"}
  /\ MessageCountOf(turn.chatRef) >= MESSAGE_CAP
  /\ handlerResponse.status = 400
  /\ handlerResponse.body.error = ChatLimitReached

\* C12: the cap of 80 messages per chat is checked before payment is taken:
\* a request to a chat that already holds 80 messages or more is rejected
\* without /settle having been called for it.
C12_CapCheckedBeforePayment == RejectedAtCap => ~SettleCalled

\* C13: no chat ever holds more than 80 messages: the messages the chat of
\* a request held before, and those the request added, are at most 80.
C13_ChatNeverExceedsCap ==
  (HandlerInvoked /\ turn.chatRef \in {"own", "almostFull", "full"})
    => MessageCountOf(turn.chatRef) + Len(messages) <= MESSAGE_CAP

\* The body of the request names a model that is not supported.
UnknownModelRequested ==
  /\ req.method = "POST"
  /\ req.body.json
  /\ req.body.model \notin ValidModels \cup {""}

\* C14: a request whose model id is not one of deepseek, gpt-5 and
\* claude-sonnet-4-5 is answered with a 4xx status and a reason that names
\* the problem, with or without a payment proof (in a process whose
\* configuration resolves).
C14_UnknownModelIs4xx ==
  (pc = "done" /\ UnknownModelRequested /\ ConfigResolves)
    => /\ response.status \in 400..499
       /\ response.body.error # <<"Payment processing error">>

\* body.files holds an entry that is oversized or whose dataUrl is not a
\* strict data URL, or more than MAX_ATTACHMENTS entries.
HasRejectableAttachment(files) ==
  \/ Len(files) > MAX_ATTACHMENTS
  \/ \E i \in 1..Len(files) :
       \/ files[i].size > MAX_ATTACHMENT_BYTES
       \/ ~isValidDataUrl(files[i].dataUrl)

\* C15: a request with an oversized or malformed attachment, or with more
\* than 4 attachments, is rejected with a 4xx status instead of being
\* processed: it never reaches the provider and is never answered 200.
C15_BadAttachmentRejected ==
  (HandlerInvoked /\ HasRejectableAttachment(turn.files))
    => /\ pc \notin {"provider", "persist"}
       /\ ~aiResponse.done
       /\ handlerResponse.status # 200

\* The sequence t is the end of the sequence s.
EndsWith(s, t) ==
  Len(s) >= Len(t) /\ SubSeq(s, Len(s) - Len(t) + 1, Len(s)) = t

ProviderFailed == aiResponse.done /\ ~aiResponse.ok

FailedWrites == { writes[i].op : i \in { j \in 1..Len(writes) : ~writes[j].ok } }

----------------------------------------------------------------------------
(* Properties of the provider layer (AdapterSpec) *)

\* The provider sent the messages of the configuration.
Sent == pc = "replied" /\ Len(wire) = Len(config.messages)

OnlyImageParts(content) ==
  /\ content.kind = "array"
  /\ Len(content.parts) > 0
  /\ \A i \in 1..Len(content.parts) : content.parts[i].type = "image_url"

\* C18: a text-only provider never receives an image part: the orchestrator
\* builds array content only for gpt-5 and claude-sonnet-4-5; what
\* toTextOnlyMessage sends to Deepseek is always a plain string; and for an
\* array made only of image parts that string is the fixed marker, never
\* the empty string.
C18_TextOnlyProviderGetsNoImagePart ==
  /\ (chatInput.built /\ pc \in {"chat", "replied"})
       => ((\E i \in 1..Len(config.messages) : config.messages[i].content.kind = "array")
             => config.model \in {"gpt-5", "claude-sonnet-4-5"})
  /\ (Sent /\ config.model = "deepseek")
       => \A i \in 1..Len(wire) :
            /\ wire[i].content.kind = "string"
            /\ wire[i].content.parts = <<>>
            /\ OnlyImageParts(config.messages[i].content)
                 => /\ wire[i].content.text = IMAGES_UNSUPPORTED
                    /\ wire[i].content.text # <<>>

C18_Witness ==
  /\ Sent
  /\ config.model = "deepseek"
  /\ aiResponse.ok
  /\ OnlyImageParts(config.messages[1].content)
  /\ Len(config.messages[1].content.parts) = 2
  /\ wire[1].content = StringContent(IMAGES_UNSUPPORTED)

ImageCount(parts) == Len(SelectSeq(parts, LAMBDA item : item.type = "image_url"))
TextCount(parts) == Len(SelectSeq(parts, LAMBDA item : item.type = "text"))

\* C19: on array content toTextOnlyMessage yields exactly the text parts, in
\* order, joined by a newline, and yields the fixed marker exactly when the
\* array has no text part and at least one image part.
C19_TextPartsJoinedOrMarker ==
  (Sent /\ config.model = "deepseek")
    => \A i \in 1..Len(wire) :
         config.messages[i].content.kind = "array"
           => LET parts == config.messages[i].content.parts
              IN  IF TextCount(parts) = 0 /\ ImageCount(parts) >= 1
                    THEN wire[i].content.text = IMAGES_UNSUPPORTED
                  ELSE wire[i].content.text = JoinNewline(TextsOf(parts))

\* The text names the images that are not delivered.
HasImagePlaceholder(content) ==
  /\ content.kind = "string"
  /\ \E i \in 1..Len(content.text) :
       content.text[i] \in {IMAGES_UNSUPPORTED[1], IMAGES_ONLY[1],
                            "\n\n[Note: User attached images ("}

\* C20: whenever a message that had image attachments, the current turn or
\* a stored prior turn, is sent to a model without vision, the content
\* delivered to the model holds a textual placeholder for the images.
C20_ImagesNeverDroppedSilently ==
  (Sent /\ chatInput.built /\ config.model \notin {"gpt-5", "claude-sonnet-4-5"})
    => /\ \A i \in 1..Len(chatInput.historyRows) :
            (chatInput.historyRows[i].role = "user" /\ RowHasImages(chatInput.historyRows[i]))
              => HasImagePlaceholder(wire[i].content)
       /\ (\E j \in 1..Len(chatInput.attachments) :
             IsImageType(chatInput.attachments[j].mimeType))
            => HasImagePlaceholder(wire[Len(wire)].content)

\* The provider's request left the process: the call did not stop at a
\* missing API key.
RequestSent == pc = "replied" /\ aiResponse.error # KeyNotConfigured

NonSystemMessages(msgs) == SelectSeq(msgs, LAMBDA m : m.role # "system")

\* An image part whose URL the chat endpoint accepted as an image data URL.
IsAcceptedImageDataUrl(url) == isValidDataUrl(url) /\ IsImageType(url[2])

\* The block the typed-block format has for the part `item`.
BlockMirrorsPart(block, item) ==
  IF item.type = "text"
    THEN block.type = "text" /\ block.text = item.text
  ELSE /\ block.type = "image"
       /\ IF IsAcceptedImageDataUrl(item.url)
            THEN /\ block.source.type = "base64"
                 /\ block.source.media_type = item.url[2]
                 /\ block.source.data = SubSeq(item.url, 4, Len(item.url))
          ELSE block.source.type = "url" /\ block.source.data = item.url

\* C21: in a request to Claude every array content is turned into one block
\* per part in the order of the parts: a text part into a text block with
\* the same text, an image part whose URL is an accepted image data URL into
\* an image block with a base64 source carrying the URL's media type and
\* payload, any other image part into an image block with a url source.
C21_AnthropicBlocksMirrorParts ==
  (RequestSent /\ config.model = "claude-sonnet-4-5") =>
    LET kept == NonSystemMessages(config.messages)
    IN  /\ Len(wire) = Len(kept)
        /\ \A i \in 1..Len(kept) :
             kept[i].content.kind = "array" =>
               /\ wire[i].content.kind = "blocks"
               /\ Len(wire[i].content.parts) = Len(kept[i].content.parts)
               /\ \A j \in 1..Len(kept[i].content.parts) :
                    BlockMirrorsPart(wire[i].content.parts[j],
                                     kept[i].content.parts[j])

\* C22: the system prompt reaches the backend in the provider's shape: for
\* Claude no system-role message is sent and the system text is the system
\* field of the request; for the other providers the system prompt is a
\* system-role message of the messages sent.
C22_SystemPromptInProviderShape ==
  RequestSent =>
    IF config.model = "claude-sonnet-4-5"
      THEN /\ \A i \in 1..Len(wire) : wire[i].role # "system"
           /\ Truthy(config.systemPrompt) => wireParams.system = config.systemPrompt
    ELSE Truthy(config.systemPrompt) =>
           \E i \in 1..Len(wire) :
             /\ wire[i].role = "system"
             /\ wire[i].content.kind = "string"
             /\ wire[i].content.text = config.systemPrompt

\* C23: the temperature and max_tokens of the backend request of the chat
\* endpoint are the request's values clamped to [0, 2] and [256, 2048].
C23_ClampedSettingsPassedThrough ==
  (RequestSent /\ chatInput.built) =>
    /\ wireParams.temperature = resolvedTemperature(chatInput.temperature)
    /\ wireParams.max_tokens = resolvedMaxTokens(chatInput.maxTokens)

\* The lines of the body that end with a line break.
TerminatedLines ==
  IF stream.terminated THEN stream.events
  ELSE SubSeq(stream.events, 1, Len(stream.events) - 1)

IsDoneLine(line) == Len(line) >= 2 /\ line[1] = "data: " /\ line[2] = "[DONE]"
IsDeltaLine(line) ==
  line \in {<<"data: ", "{content:a}">>, <<"data: ", "{content:b}">>}
IsMalformedLine(line) == line = <<"data: ", "{bad">>

RECURSIVE BeforeDone(_)
\* The lines before the first data: [DONE] line.
BeforeDone(lines) ==
  IF Len(lines) = 0 \/ IsDoneLine(Head(lines)) THEN <<>>
  ELSE <<Head(lines)>> \o BeforeDone(Tail(lines))

\* The texts of the deltas the lines carry, in order.
DeltaTexts(lines) ==
  LET deltas == SelectSeq(lines, IsDeltaLine)
  IN  [i \in 1..Len(deltas) |-> DeltaContent(deltas[i][2])]

SdkDeltaTexts(events) ==
  LET deltas == SelectSeq(events, IsTextDelta)
  IN  [i \in 1..Len(deltas) |-> SdkDeltaText(deltas[i])]

RECURSIVE Concat(_)
Concat(texts) == IF Len(texts) = 0 THEN <<>> ELSE Head(texts) \o Concat(Tail(texts))

ChunkTexts == [i \in 1..Len(stream.chunks) |-> stream.chunks[i].text]

\* The texts of the chunks before the closing chunk.
DeltaChunkTexts == SubSeq(ChunkTexts, 1, Len(ChunkTexts) - 1)

StreamEnded == stream.state = "returned"

\* C24: a chunk sequence that ended without an error has exactly one chunk
\* with isComplete = TRUE, its last one, and no line after a data: [DONE]
\* line has yielded a chunk.
C24_OneCompleteChunkLast ==
  StreamEnded =>
    /\ Len(stream.chunks) >= 1
    /\ stream.chunks[Len(stream.chunks)].isComplete
    /\ \A i \in 1..(Len(stream.chunks) - 1) : ~stream.chunks[i].isComplete
    /\ stream.provider \in FetchProviders =>
         Len(stream.chunks) - 1 <= Len(DeltaTexts(BeforeDone(stream.events)))

\* A stream ended whose body has a delta, then [DONE], then another delta.
C24_Witness ==
  /\ StreamEnded
  /\ Len(stream.chunks) = 2
  /\ \E i, j, k \in 1..Len(stream.events) :
       /\ i < j /\ j < k
       /\ IsDeltaLine(stream.events[i])
       /\ IsDoneLine(stream.events[j])
       /\ IsDeltaLine(stream.events[k])

\* C25: the texts of the chunks of an ended stream, concatenated in order,
\* are the content of the upstream reply: the deltas the body carries up to
\* [DONE], in order.
C25_StreamReproducesContent ==
  StreamEnded =>
    Concat(ChunkTexts) =
      IF stream.provider \in FetchProviders
        THEN Concat(DeltaTexts(BeforeDone(stream.events)))
      ELSE Concat(SdkDeltaTexts(stream.sdkEvents))

\* The lines without the lines whose payload is not JSON.
WellFormedLines(lines) == SelectSeq(lines, LAMBDA line : ~IsMalformedLine(line))

HasMalformedEvent ==
  \E i \in 1..Len(BeforeDone(TerminatedLines)) :
    IsMalformedLine(TerminatedLines[i])

\* C26: a stream whose body has a data: line with a payload that is not JSON
\* ends without an error and has yielded exactly the chunks of the body
\* without that line.
C26_MalformedEventSkipped ==
  (StreamEnded /\ stream.provider \in FetchProviders /\ HasMalformedEvent) =>
    DeltaChunkTexts = DeltaTexts(BeforeDone(WellFormedLines(TerminatedLines)))

\* A stream ended that has yielded the delta of a line after a malformed line.
C26_Witness ==
  /\ StreamEnded
  /\ stream.provider \in FetchProviders
  /\ Len(stream.chunks) >= 2
  /\ \E i, j \in 1..Len(BeforeDone(TerminatedLines)) :
       /\ i < j
       /\ IsMalformedLine(TerminatedLines[i])
       /\ IsDeltaLine(TerminatedLines[j])

\* C27: after the generator has finished or has been cancelled the reader of
\* the response body is not left open.
C27_ReaderReleased ==
  (stream.provider \in FetchProviders /\ stream.state \in {"returned", "cancelled"})
    => stream.reader # "locked"

\* C28: whatever the interleaving of the requests, at most one AIProvider,
\* one adapter per provider and one X402PaymentHandler have been
\* constructed, and each request has used those instances.
C28_LazyConstructionIsSingle ==
  /\ instances.constructed.handler <= 1
  /\ instances.constructed.aiProvider <= 1
  /\ \A m \in ValidModels : instances.constructed.adapters[m] <= 1
  /\ \A t \in 1..Len(tasks) :
       /\ tasks[t].handler \in {0, instances.handler}
       /\ tasks[t].handlerAgain \in {0, instances.handler}
       /\ tasks[t].provider \in {0, instances.aiProvider}
       /\ tasks[t].model # "" => tasks[t].adapter \in {0, instances.adapters[tasks[t].model]}

\* Two requests of the same model are both suspended in the provider's call
\* while a third has not reached the gate.
C28_Witness ==
  /\ Len(tasks) >= 2
  /\ \E t1, t2 \in 1..Len(tasks) :
       /\ t1 # t2
       /\ tasks[t1].pc = "receipt" /\ tasks[t2].pc = "receipt"
       /\ tasks[t1].model = tasks[t2].model
       /\ tasks[t1].adapter # 0 /\ tasks[t2].adapter # 0
       /\ tasks[t1].handler # 0 /\ tasks[t2].handler # 0

\* C29: a request that has reached the facilitator calls is answered in the
\* end, with a 402 when the facilitator does not answer.
C29_GatedRequestAnswered ==
  (pc \in {"verify", "settle"}) ~> (pc = "done" /\ response.status # 0)

\* C30: the error of the 402 that follows a failed verification ends with
\* the reason reported for it, the facilitator's error or else its
\* invalidReason; the error of the 402 that follows a failed settlement ends
\* with the settlement's error.
C30_RejectionNamesReason ==
  (pc = "done" /\ response.status = 402) =>
    /\ (verification.done /\ ~verification.isValid
          /\ (Truthy(verification.error) \/ Truthy(verification.invalidReason)))
         => EndsWith(response.body.error,
                     IF Truthy(verification.error) THEN verification.error
                     ELSE verification.invalidReason)
    /\ (settlement.done /\ ~settlement.success /\ Truthy(settlement.error))
         => EndsWith(response.body.error, settlement.error)

\* C31: the header of a payload, once parsed, gives the payload back.
C31_EnvelopeRoundTrip ==
  (codec.stage \in {"parsed", "parseThrew"}) =>
    (codec.stage = "parsed" /\ codec.parsed = [signature |-> codec.p.signature,
                                               value |-> codec.p.value])

----------------------------------------------------------------------------
(* The gated routes: /api/chat and /api/chat/gpt *)

Endpoints == {"/api/chat", "/api/chat/gpt"}

\* The defaultModel each route passes to withX402Payment.
RouteDefaultModel(endpoint) ==
  IF endpoint = "/api/chat" THEN "deepseek" ELSE "gpt-5"

\* The bodies of a request: not JSON, or JSON whose model field is absent,
\* a string (possibly empty) or something else (null, a number).
RouteBodies ==
  { [json |-> FALSE, modelKind |-> "absent", model |-> "", hasImage |-> FALSE] }
  \cup { [json |-> TRUE, modelKind |-> k, model |-> "", hasImage |-> b] :
           k \in {"absent", "other"}, b \in BOOLEAN }
  \cup { [json |-> TRUE, modelKind |-> "string", model |-> m, hasImage |-> b] :
           m \in BodyModels \cup {""}, b \in BOOLEAN }

\* The body as withX402Payment looks at it: body.model && typeof body.model
\* === 'string'.
GateBody(body) ==
  [json |-> body.json,
   model |-> IF body.modelKind = "string" THEN body.model ELSE "",
   hasImages |-> body.hasImage]

\* handleChatRequest: const { model = DEFAULT_MODEL } = body.  The default
\* replaces an absent field only.
ChatModelOf(body) ==
  IF body.modelKind = "absent" THEN CHAT_DEFAULT_MODEL
  ELSE IF body.modelKind = "other" THEN "null"
  ELSE body.model

\* handleGPTChat: model: hasImage ? 'gpt-4-vision-preview' : 'gpt-4'.
GptModelOf(body) ==
  IF body.hasImage THEN "gpt-4-vision-preview" ELSE "gpt-4"

RouteInit ==
  /\ GateIdle
  /\ ProviderIdle
  /\ pc = "route"
  /\ AuxIdle

RouteReceive ==
  /\ pc = "route"
  /\ route.stage = "none"
  /\ \E endpoint \in Endpoints, body \in RouteBodies, hasProof \in BOOLEAN :
       route' = [route EXCEPT !.stage = "received", !.endpoint = endpoint,
                              !.body = body, !.hasProof = hasProof]
  /\ UNCHANGED <<gateVars, providerVars, pc, codec, db>>

\* withX402Payment and handlePaymentFlow: the model read from the body
\* prices the request; the facilitator accepts the payment or not.
RouteGate ==
  /\ route.stage = "received"
  /\ LET m == ReadModel(GateBody(route.body), RouteDefaultModel(route.endpoint))
         requirements == createChatPaymentRequirements(env, m, FALSE, route.endpoint)
     IN  IF ~requirements.ok
           THEN route' = [route EXCEPT !.stage = "error", !.gateModel = m]
         ELSE IF ~route.hasProof
           THEN route' = [route EXCEPT !.stage = "rejected", !.gateModel = m,
                                       !.price = requirements.v.maxAmountRequired]
         ELSE \E paid \in BOOLEAN :
                route' = [route EXCEPT !.stage = IF paid THEN "granted" ELSE "rejected",
                                       !.gateModel = m,
                                       !.price = requirements.v.maxAmountRequired]
  /\ UNCHANGED <<gateVars, providerVars, pc, codec, db>>

\* handleChatRequest up to callAIProvider(model, ...).
RouteChatHandler ==
  /\ route.stage = "granted"
  /\ route.endpoint = "/api/chat"
  /\ \E passes \in BOOLEAN :
       IF route.body.json /\ passes /\ ChatModelOf(route.body) \in ValidModels
         THEN route' = [route EXCEPT !.stage = "served",
                                     !.served = ChatModelOf(route.body)]
       ELSE route' = [route EXCEPT !.stage = "refused"]
  /\ UNCHANGED <<gateVars, providerVars, pc, codec, db>>

\* handleGPTChat up to openai.chat.completions.create.
RouteGptHandler ==
  /\ route.stage = "granted"
  /\ route.endpoint = "/api/chat/gpt"
  /\ \E passes \in BOOLEAN :
       IF route.body.json /\ passes
         THEN route' = [route EXCEPT !.stage = "served",
                                     !.served = GptModelOf(route.body)]
       ELSE route' = [route EXCEPT !.stage = "refused"]
  /\ UNCHANGED <<gateVars, providerVars, pc, codec, db>>

RouteNext ==
  \/ RouteReceive
  \/ RouteGate
  \/ RouteChatHandler
  \/ RouteGptHandler

RouteSpec == RouteInit /\ [][RouteNext]_vars

----------------------------------------------------------------------------
(* The operations on one chat: continue, list messages, rename, delete *)

SeedUsers == { [id |-> "u1", wallet_address |-> "walletA"],
               [id |-> "u2", wallet_address |-> "walletB"] }

SeedChats == { [id |-> "c1", user_id |-> "u1", title |-> <<"o", "n", "e">>],
               [id |-> "c2", user_id |-> "u2", title |-> <<"t", "w", "o">>] }

SeedMessages ==
  << [chat_id |-> "c1", user_id |-> "u1", role |-> "user"],
     [chat_id |-> "c1", user_id |-> "u1", role |-> "assistant"],
     [chat_id |-> "c2", user_id |-> "u2", role |-> "user"],
     [chat_id |-> "c2", user_id |-> "u2", role |-> "assistant"] >>

OpKinds == {"continue", "list", "rename", "delete"}
OpWallets == {"walletA", "walletB", "walletC"}
OpChatIds == {"c1", "c2", "c9"}
OpTitles == { <<"n", "e", "w">>, <<" ", " ">> }

\* rawTitle.replace(/\s+/g, " ").trim()
RECURSIVE CollapseWhitespace(_)
CollapseWhitespace(t) ==
  IF Len(t) = 0 THEN <<>>
  ELSE IF t[1] \in Whitespace
    THEN LET rest == CollapseWhitespace(Tail(t))
         IN  IF Len(rest) > 0 /\ rest[1] = " " THEN rest ELSE <<" ">> \o rest
  ELSE <<t[1]>> \o CollapseWhitespace(Tail(t))

normalizedTitle(rawTitle) == TrimRight(TrimLeft(CollapseWhitespace(rawTitle)))

\* getOrCreateUser with no other call in progress: the row of the wallet,
\* inserted when there is none.
UserRowOf(users, walletAddress) ==
  IF \E u \in users : u.wallet_address = walletAddress
    THEN CHOOSE u \in users : u.wallet_address = walletAddress
  ELSE [id |-> "u3", wallet_address |-> walletAddress]

\* getChatById: the set holding the row, empty for null.
getChatById(chats, chatId) == { c \in chats : c.id = chatId }

ensureChatOwnership_AnyUser(chats, chatId, userId) == getChatById(chats, chatId)

\* ensureChatOwnership: the set holding the chat, empty for null.
ensureChatOwnership(chats, chatId, userId) ==
  { c \in getChatById(chats, chatId) : c.user_id = userId }

\* SelectSeq(messages, chat_id # chatId): the rows left by ON DELETE CASCADE.
RECURSIVE RowsNotOf(_, _)
RowsNotOf(rows, chatId) ==
  IF Len(rows) = 0 THEN <<>>
  ELSE (IF rows[1].chat_id = chatId THEN <<>> ELSE <<rows[1]>>)
       \o RowsNotOf(Tail(rows), chatId)

ChatOpsInit ==
  /\ GateIdle
  /\ ProviderIdle
  /\ pc = "chatOps"
  /\ codec = NoCodec
  /\ route = NoRoute
  /\ db = [NoDb EXCEPT !.users = SeedUsers, !.chats = SeedChats,
                        !.messages = SeedMessages]

\* A request arrives; PATCH answers an empty title before any lookup.
OpArrives ==
  /\ pc = "chatOps"
  /\ db.op.stage = "none"
  /\ \E kind \in OpKinds, walletAddress \in OpWallets, chatId \in OpChatIds,
        title \in OpTitles :
       /\ kind # "rename" => title = <<"n", "e", "w">>
       /\ db' = [db EXCEPT !.op =
                   [NoOp EXCEPT !.kind = kind, !.walletAddress = walletAddress,
                                !.chatId = chatId, !.title = normalizedTitle(title),
                                !.stage = IF kind = "rename" /\ normalizedTitle(title) = <<>>
                                            THEN "done" ELSE "resolve",
                                !.status = IF kind = "rename" /\ normalizedTitle(title) = <<>>
                                             THEN 422 ELSE 0]]
  /\ UNCHANGED <<gateVars, providerVars, pc, codec, route>>

\* resolveUser(walletAddress) / adminDbHelpers.getOrCreateUser(walletAddress)
OpResolvesUser ==
  /\ db.op.stage = "resolve"
  /\ \E fails \in BOOLEAN :
       IF fails
         THEN db' = [db EXCEPT !.op.stage = "done", !.op.status = 500,
                               !.op.failed = TRUE]
       ELSE LET user == UserRowOf(db.users, db.op.walletAddress)
            IN  db' = [db EXCEPT !.users = db.users \cup {user},
                                 !.op.userId = user.id, !.op.stage = "own"]
  /\ UNCHANGED <<gateVars, providerVars, pc, codec, route>>

\* ensureChatOwnership(chatId, user.id) and the 404 of its callers.
OpChecksOwnership ==
  /\ db.op.stage = "own"
  /\ \E fails \in BOOLEAN :
       IF fails
         THEN db' = [db EXCEPT !.op.stage = "done", !.op.failed = TRUE,
                               !.op.status = IF db.op.kind = "continue" THEN 404 ELSE 500]
       ELSE IF ensureChatOwnership(db.chats, db.op.chatId, db.op.userId) = {}
         THEN db' = [db EXCEPT !.op.stage = "done", !.op.status = 404]
       ELSE db' = [db EXCEPT !.op.stage = "operate"]
  /\ UNCHANGED <<gateVars, providerVars, pc, codec, route>>

\* What each operation does with the chat after the ownership check.
OpOperates ==
  /\ db.op.stage = "operate"
  /\ \E fails \in BOOLEAN :
       LET op == db.op
           own(c) == c.id = op.chatId /\ c.user_id = op.userId
       IN  CASE op.kind = "list" ->
                  db' = [db EXCEPT !.op.stage = "done", !.op.failed = fails,
                                   !.op.accesses = Append(@, "getChatMessages"),
                                   !.op.status = IF fails THEN 500 ELSE 200]
             [] op.kind = "rename" ->
                  db' = [db EXCEPT !.op.stage = "done", !.op.failed = fails,
                                   !.op.accesses = Append(@, "updateChatTitle"),
                                   !.op.status = IF fails THEN 500 ELSE 200,
                                   !.chats = IF fails THEN @
                                             ELSE { IF own(c) THEN [c EXCEPT !.title = op.title]
                                                    ELSE c : c \in @ }]
             [] op.kind = "delete" ->
                  db' = [db EXCEPT !.op.stage = "done", !.op.failed = fails,
                                   !.op.accesses = Append(@, "deleteChat"),
                                   !.op.status = IF fails THEN 500 ELSE 204,
                                   !.chats = IF fails THEN @ ELSE { c \in @ : ~own(c) },
                                   !.messages = IF fails THEN @
                                                ELSE RowsNotOf(@, op.chatId)]
             [] op.kind = "continue" ->
                  db' = [db EXCEPT !.op.stage = "done", !.op.failed = fails,
                                   !.op.accesses = IF fails THEN Append(@, "getChatMessages")
                                                   ELSE @ \o <<"getChatMessages",
                                                               "getChatMessageCount",
                                                               "addMessage", "addMessage">>,
                                   !.op.status = IF fails THEN 404 ELSE 200,
                                   !.messages = IF fails THEN @
                                                ELSE @ \o <<[chat_id |-> op.chatId,
                                                             user_id |-> op.userId,
                                                             role |-> "user"],
                                                            [chat_id |-> op.chatId,
                                                             user_id |-> op.userId,
                                                             role |-> "assistant"]>>]
  /\ UNCHANGED <<gateVars, providerVars, pc, codec, route>>

ChatOpsNext ==
  \/ OpArrives
  \/ OpResolvesUser
  \/ OpChecksOwnership
  \/ OpOperates

ChatOpsSpec == ChatOpsInit /\ [][ChatOpsNext]_vars

----------------------------------------------------------------------------
(* The context of a request in an existing chat *)

HISTORY_LIMIT == 12

MessageNames ==
  <<"m01", "m02", "m03", "m04", "m05", "m06", "m07", "m08", "m09", "m10",
    "m11", "m12", "m13", "m14", "m15", "m16">>

\* The i-th message of a chat, by time of creation.
MessageRow(chatId, i) ==
  [chat_id |-> chatId, created_at |-> i,
   role |-> IF i % 2 = 1 THEN "user" ELSE "assistant",
   content |-> <<MessageNames[i]>>, files |-> <<>>]

\* The rows of a table holding n messages of chat c1 and k of chat c2, as
\* stored: oldest first, or newest first.
StoredRows(n, k, newestFirst) ==
  LET own == [i \in 1..n |-> MessageRow("c1", IF newestFirst THEN n + 1 - i ELSE i)]
      other == [i \in 1..k |-> MessageRow("c2", i)]
  IN  other \o own

\* .order('created_at', { ascending: true })
RECURSIVE OrderByCreatedAt(_)
OrderByCreatedAt(rows) ==
  IF rows = {} THEN <<>>
  ELSE LET first == CHOOSE r \in rows : \A q \in rows : r.created_at <= q.created_at
       IN  <<first>> \o OrderByCreatedAt(rows \ {first})

\* .range(from, to): the rows at positions from..to, counted from 0.
RangeOf(rows, from, to) == SubSeq(rows, from + 1, Min(to + 1, Len(rows)))

\* getChatMessages(chatId, limit, offset)
getChatMessages(rows, chatId, limit, offset) ==
  RangeOf(OrderByCreatedAt({ rows[i] : i \in { j \in DOMAIN rows : rows[j].chat_id = chatId } }),
          offset, offset + limit - 1)

HistoryInit ==
  /\ GateIdle
  /\ ProviderIdle
  /\ pc = "history"
  /\ codec = NoCodec
  /\ route = NoRoute
  /\ \E n \in 0..MaxHistory, k \in 0..2, newestFirst \in BOOLEAN :
       db = [NoDb EXCEPT !.users = SeedUsers, !.chats = SeedChats,
                         !.messages = StoredRows(n, k, newestFirst)]

\* POST /api/chat of the owner of chat c1 with the chat's id.
HistoryArrives ==
  /\ pc = "history"
  /\ db.op.stage = "none"
  /\ \E m \in ValidModels :
       db' = [db EXCEPT !.op = [NoOp EXCEPT !.kind = "continue", !.chatId = "c1",
                                            !.walletAddress = "walletA",
                                            !.userId = "u1", !.model = m,
                                            !.message = <<"h", "i">>,
                                            !.stage = "load"]]
  /\ UNCHANGED <<gateVars, providerVars, pc, codec, route>>

\* loadChatContext: getChatMessages(chatId, HISTORY_LIMIT)
HistoryLoads ==
  /\ pc = "history"
  /\ db.op.stage = "load"
  /\ db' = [db EXCEPT !.op.historyRows =
                         getChatMessages(db.messages, db.op.chatId, HISTORY_LIMIT, 0),
                       !.op.stage = "build"]
  /\ UNCHANGED <<gateVars, providerVars, pc, codec, route>>

\* handleChatRequest: chatMessages = [...priorMessages, the user message]
HistoryBuilds ==
  /\ pc = "history"
  /\ db.op.stage = "build"
  /\ db' = [db EXCEPT !.op.chatMessages =
                         BuildMessages(db.op.model, db.op.historyRows,
                                       db.op.message, <<>>),
                       !.op.stage = "called"]
  /\ UNCHANGED <<gateVars, providerVars, pc, codec, route>>

HistoryNext ==
  \/ HistoryArrives
  \/ HistoryLoads
  \/ HistoryBuilds

HistorySpec == HistoryInit /\ [][HistoryNext]_vars

----------------------------------------------------------------------------
(* Concurrent calls of getOrCreateUser *)

NewWallets == {"walletC", "walletD"}

NewUserIds == <<"n1", "n2", "n3", "n4", "n5">>

NoCaller == [at |-> "idle", walletAddress |-> "", result |-> ""]

\* .from('users').select('*').eq('wallet_address', walletAddress).maybeSingle()
SelectUser(users, walletAddress) ==
  { u \in users : u.wallet_address = walletAddress }

\* .from('users').insert(newUserPayload): wallet_address is UNIQUE, so the
\* insert of a second row for the wallet is refused.
InsertUser(users, row) ==
  IF \E u \in users : u.wallet_address = row.wallet_address THEN Throw
  ELSE Ok(users \cup {row})

UserRaceInit ==
  /\ GateIdle
  /\ ProviderIdle
  /\ pc = "users"
  /\ codec = NoCodec
  /\ route = NoRoute
  /\ db = [NoDb EXCEPT !.users = SeedUsers,
                        !.callers = [i \in 1..MaxCallers |-> NoCaller]]

\* A request calls getOrCreateUser(walletAddress).
CallerStarts(i) ==
  /\ db.callers[i].at = "idle"
  /\ \E w \in NewWallets :
       db' = [db EXCEPT !.callers[i] = [at |-> "select", walletAddress |-> w,
                                        result |-> ""]]
  /\ UNCHANGED <<gateVars, providerVars, pc, codec, route>>

\* The select answers: the row is returned, or the call goes on to insert.
CallerSelects(i) ==
  /\ db.callers[i].at = "select"
  /\ LET found == SelectUser(db.users, db.callers[i].walletAddress)
     IN  IF found # {}
           THEN db' = [db EXCEPT !.callers[i].at = "returned",
                                 !.callers[i].result = (CHOOSE u \in found : TRUE).id]
         ELSE db' = [db EXCEPT !.callers[i].at = "insert"]
  /\ UNCHANGED <<gateVars, providerVars, pc, codec, route>>

\* The insert answers: the new row is returned, or createError is thrown.
CallerInserts(i) ==
  /\ db.callers[i].at = "insert"
  /\ LET row == [id |-> NewUserIds[i],
                 wallet_address |-> db.callers[i].walletAddress]
         inserted == InsertUser(db.users, row)
     IN  IF inserted.ok
           THEN db' = [db EXCEPT !.users = inserted.v,
                                 !.callers[i].at = "returned",
                                 !.callers[i].result = row.id]
         ELSE db' = [db EXCEPT !.callers[i].at = "threw"]
  /\ UNCHANGED <<gateVars, providerVars, pc, codec, route>>

UserRaceNext ==
  \E i \in 1..MaxCallers :
    \/ CallerStarts(i)
    \/ CallerSelects(i)
    \/ CallerInserts(i)

UserRaceSpec == UserRaceInit /\ [][UserRaceNext]_vars

HasPaymentHeader ==
  \E entry \in codec.headers.entries : entry.name \in PaymentHeaderNames

\* C32: the payment header is found under every spelling of its name, in a
\* Headers object and in a plain record; without the header the result is
\* null.
C32_HeaderFoundUnderAnyCasing ==
  (codec.stage \in {"extracted", "noProof"}) =>
    IF HasPaymentHeader
      THEN codec.stage = "extracted" /\ codec.extracted = codec.header
    ELSE codec.stage = "noProof"

\* The price of a GPT message at the GPT route.
GptRoutePrice == AI_MODEL_PRICING(env)["gpt-5"].pricePerMessage

\* C33: the model that priced a served request is the model that serves
\* it: at /api/chat the model the gate read is the model called, at
\* /api/chat/gpt the price is the GPT price whatever the body names.
C33_PricedModelServes ==
  (route.stage = "served") =>
    IF route.endpoint = "/api/chat"
      THEN route.gateModel = route.served
    ELSE route.price = GptRoutePrice

\* The requirements a 402 answer advertises for the model of the request.
AdvertisedRequirements ==
  create402Response(env, model, RouteHasVision, RouteEndpoint, Undefined)

\* C34: within a request /verify and /settle are sent the same decoded
\* payment payload and the same requirements, and the requirements are the
\* ones a 402 for the same model, vision flag and endpoint advertises.
C34_SameProofSameRequirements ==
  \A i, j \in DOMAIN calls :
    (calls[i].call = "/verify" /\ calls[j].call = "/settle") =>
      /\ calls[i].body = calls[j].body
      /\ calls[i].body.paymentPayload = parsePaymentHeader(extractPaymentHeader(req)).v
      /\ AdvertisedRequirements.ok
      /\ calls[j].body.paymentRequirements = AdvertisedRequirements.v.body.accepts[1]

C34_Witness ==
  \E i, j \in DOMAIN calls :
    /\ calls[i].call = "/verify"
    /\ calls[j].call = "/settle"
    /\ calls[j].body.paymentPayload.payload.signature # Undefined

\* The chat of the operation belongs to the user of the wallet supplied.
OpByOwner ==
  \E c \in SeedChats, u \in db.users :
    /\ c.id = db.op.chatId
    /\ c.user_id = u.id
    /\ u.wallet_address = db.op.walletAddress

OpSucceeded == db.op.status \in {200, 204}

HasRow(role) == \E i \in DOMAIN messages : messages[i].role = role

\* C36: after a request the chat holds the user message and the assistant
\* reply of that request, or neither of them.
C36_TurnPersistedWhole ==
  (pc = "done") => (HasRow("user") <=> HasRow("assistant"))

\* The messages of the chat of the request, oldest first.
ChatRowsInOrder ==
  OrderByCreatedAt({ db.messages[i] :
                       i \in { j \in DOMAIN db.messages :
                                 db.messages[j].chat_id = db.op.chatId } })

\* C37: the context sent to the model is the HISTORY_LIMIT most recent
\* messages of the chat, oldest first, followed by the new user message.
C37_ContextIsMostRecentTurns ==
  (pc = "history" /\ db.op.stage = "called") =>
    db.op.chatMessages =
      BuildMessages(db.op.model,
                    SubSeq(ChatRowsInOrder,
                           Max(1, Len(ChatRowsInOrder) - HISTORY_LIMIT + 1),
                           Len(ChatRowsInOrder)),
                    db.op.message, <<>>)

RECURSIVE ChunksOfLines(_)
\* The chunks of a list of complete lines processed in order.
ChunksOfLines(lines) ==
  IF Len(lines) = 0 THEN <<StreamChunk(<<>>, TRUE)>>
  ELSE LET step == ProcessLine(lines[1])
       IN  CASE step.kind = "done" -> <<StreamChunk(<<>>, TRUE)>>
             [] step.kind = "delta" ->
                  <<StreamChunk(step.text, FALSE)>> \o ChunksOfLines(Tail(lines))
             [] OTHER -> ChunksOfLines(Tail(lines))

\* The chunks of the body when it arrives in one read.
WholeBodyChunks ==
  LET split == SplitLines(BodyText(stream.events, stream.terminated), <<>>, <<>>)
  IN  ChunksOfLines(SubSeq(split, 1, Len(split) - 1))

\* C38: the chunks of the Deepseek/GPT parser are those of the body read at
\* once, however the body is cut into reads: a line cut by a read is put
\* together again through the buffer.
C38_ChunksIndependentOfReads ==
  (stream.provider \in FetchProviders /\ stream.state # "threw"
                                       /\ stream.reader # "none") =>
    /\ Len(stream.chunks) <= Len(WholeBodyChunks)
    /\ stream.chunks = SubSeq(WholeBodyChunks, 1, Len(stream.chunks))
    /\ StreamEnded => stream.chunks = WholeBodyChunks

\* A stream ended whose body was cut inside a line and has yielded a delta.
C38_Witness ==
  /\ StreamEnded
  /\ stream.provider \in FetchProviders
  /\ stream.partial
  /\ Len(stream.chunks) >= 3

CallersOf(w) == { i \in DOMAIN db.callers : db.callers[i].walletAddress = w }

\* C39: when the concurrent first calls of getOrCreateUser for a wallet
\* have ended, there is exactly one row for the wallet and every call has
\* returned it.
C39_OneUserRowEveryCallReturns ==
  \A w \in NewWallets :
    (CallersOf(w) # {} /\ \A i \in CallersOf(w) : db.callers[i].at \in {"returned", "threw"}) =>
      /\ Cardinality(SelectUser(db.users, w)) = 1
      /\ \A i \in CallersOf(w) :
           /\ db.callers[i].at = "returned"
           /\ \E u \in SelectUser(db.users, w) : u.id = db.callers[i].result

====
